---- MODULE Spec2Model ----
\* A model of the plugin runtime: one Plugin (src/src/plugin.rs) driven by
\* concurrent callers through its RwLock, the loader's load_manifest
\* (src/src/loader.rs) that builds the engine configuration for it, and the
\* PluginRegistry (src/src/registry.rs) with the plugins its callers hold.
EXTENDS Integers, Sequences, FiniteSets, TLC

\* ------------------------------------------------------------------ bounds
\* Longest capability list of a manifest.
MaxCaps == 2
\* A call waiting for the lock is not explored further once invocation_count
\* has reached this.
MaxCalls == 2
\* A reload waiting for the lock is not explored further once reload_count has
\* reached this.
MaxReloads == 2
\* Plugins created by the callers of a registry (ids 1..MaxHandles).
MaxHandles == 4
\* Largest RegistryConfig.max_plugins.
MaxPluginsLimit == 2
\* The raw events the backend hands to the callback.
MaxEvents == 4
\* The handlers registered with on_change.
MaxHandlers == 2
\* The calls of Plugin::new.
MaxNew == 4
\* The clones of PluginHandles.
MaxClones == 2

\* ------------------------------------------------------------ value domains
Threads == {"t1", "t2"}
SeqThreads == {"t1"}
NoThread == "none"

LifecycleStates == {"Created", "Initialized", "Running", "Stopped", "Unloaded", "Error"}

LifecycleOps == {"initialize", "start", "stop", "unload", "call", "reload"}

\* Function names a manifest may export, and the names callers try to call.
ExportNames == {"init", "cleanup", "run"}
CallNames == {"main", "run", "nope"}

\* Capability names a manifest may declare; "bogus:cap" resolves to nothing.
CapNames == {"fs:read", "net:request", "bogus:cap"}
Capabilities == {"FsRead", "NetRequest"}

\* fusabi_host::Capability::from_name, as the call sites and tests use it.
CapabilityFromName(n) ==
  CASE n = "fs:read" -> "FsRead"
    [] n = "net:request" -> "NetRequest"
    [] OTHER -> "None"

CapLists == UNION {[1..n -> CapNames] : n \in 0..MaxCaps}
\* Every manifest exports "run"; "init" and "cleanup" are each optional.
ExportSets == {e \cup {"run"} : e \in SUBSET {"init", "cleanup"}}
Manifests == [exports : ExportSets, capabilities : CapLists]
\* The manifests of the concurrent specification: the capability lists of the
\* repository's own tests (none, or "fs:read").
SmallManifests == {m \in Manifests : m.capabilities \in {<<>>, <<"fs:read">>}}

VARIABLES
  manifest,          \* PluginInner.manifest
  state,             \* PluginInner.info.state
  engine,            \* PluginInner.engine is Some
  bytecode,          \* PluginInner.bytecode is Some
  invocation_count,  \* PluginInner.info.invocation_count
  reload_count,      \* PluginInner.info.reload_count
  last_reload,       \* PluginInner.info.last_reload (0 is None)
  lock,              \* the writer holding Plugin.inner, or NoThread
  observed,          \* what Plugin::state() returns to a reader
  th,                \* each caller's operation, position and result
  forced,            \* set_state has been used
  load               \* the loader's last load_manifest

VARIABLES
  plugins,           \* PluginRegistry.plugins: name -> plugin id, 0 is absent
  pstate,            \* the lifecycle state of each plugin the callers created
  config,            \* PluginRegistry.config
  handles,           \* the plugins whose handles the callers hold
  rt                 \* each caller's registry operation, position and locals

regVars == <<plugins, pstate, config, handles, rt>>

VARIABLES
  wconfig,           \* PluginWatcher.config
  watcher,           \* PluginWatcher.watcher is Some
  running,           \* PluginWatcher.running
  watched_paths,     \* PluginWatcher.watched_paths
  installed,         \* the paths the backend of PluginWatcher.watcher watches
  last_events,       \* WatchState.last_events
  handlers,          \* WatchState.handlers, each handler by its number
  wlock,             \* the writer holding PluginWatcher.state, or NoThread
  clock,             \* what Instant::now() returns
  cb,                \* each backend thread's position in the callback
  api,               \* the owner's last operation on the watcher
  nevents,           \* the raw events handed to the callback so far
  received,          \* per path, the instants of the events that met the debounce check
  dispatched,        \* the events admitted by the debounce check
  delivered          \* the invocations of the handlers, in order

watchVars == <<wconfig, watcher, running, watched_paths, installed, last_events,
               handlers, wlock, clock, cb, api, nevents, received,
               dispatched, delivered>>

VARIABLES
  next_plugin_id,    \* NEXT_PLUGIN_ID
  creating,          \* each caller's position in Plugin::new
  made,              \* the plugins Plugin::new has returned, in order of return
  clones,            \* the PluginHandles: the plugin behind each, and the
                     \* handle it was cloned from (0 for PluginHandle::new)
  stamp,             \* the calls and returns of Plugin::new so far
  validation         \* a manifest and what Manifest::validate said of it

auxVars == <<next_plugin_id, creating, made, clones, stamp, validation>>

vars == <<manifest, state, engine, bytecode, invocation_count, reload_count,
          last_reload, lock, observed, th, forced, load, regVars, watchVars,
          auxVars>>

pluginVars == <<manifest, state, engine, bytecode, invocation_count,
                reload_count, last_reload>>

IdleRec ==
  [op |-> "none", pc |-> "idle", caps |-> {}, valid |-> TRUE, fn |-> "-",
   target |-> "-", was_running |-> FALSE, res |-> "none", cap |-> "-",
   peer |-> FALSE, ranInit |-> FALSE, cleanup |-> "-", state0 |-> "-",
   reloads0 |-> 0, last0 |-> 0]

\* ApiVersion values: the host's and the manifest's.
ApiVersions == [major : 0..1, minor : 20..22, patch : {0, 5}]
\* ApiVersion::default.
DefaultApiVersion == [major |-> 0, minor |-> 18, patch |-> 0]

\* No load yet. `host` and `api_version` are the loader's host_api_version
\* and the manifest's api_version, `compatible` what the version check found,
\* `required` and `provided` the fields of an ApiVersionMismatch.
NoLoad ==
  [base |-> {}, valid |-> TRUE, auto_start |-> FALSE, strict |-> FALSE,
   init |-> "-", cap |-> "-", res |-> "none",
   host |-> DefaultApiVersion, api_version |-> DefaultApiVersion,
   compatible |-> TRUE, required |-> <<>>, provided |-> <<>>]

\* --------------------------------------------------- registry value domains
\* Plugin names, and the order in which an iteration of the map meets them.
NameOrder == <<"a", "b", "c">>
Names == {NameOrder[k] : k \in 1..Len(NameOrder)}

\* Plugin ids as NEXT_PLUGIN_ID hands them out: 1, 2, 3, ...
PluginIds == 1..MaxHandles
\* The manifest name each caller gave to its plugin: "a", "b", "c", "a", ...
PluginName(p) == NameOrder[((p - 1) % Len(NameOrder)) + 1]

RegistryConfigs ==
  [max_plugins : 0..MaxPluginsLimit, allow_overwrite : BOOLEAN,
   auto_unload_stopped : BOOLEAN]

NoStats == [total |-> 0, running |-> 0, stopped |-> 0, error |-> 0, unloaded |-> 0]

NoPrev == [op |-> "none", id |-> 0, res |-> "none"]

\* A caller outside every registry operation. `had` and `len0` are what
\* get(name) and len() gave when the operation was entered; `prev` is the
\* operation on the same name that the caller had just returned from; `ids`
\* are the plugins the map held when unload_all or the drop began, `dropped`
\* the plugins whose entries cleanup or unload_all has taken out of the map,
\* `loaded` the operation of the PluginRuntime that called this register.
RegIdle ==
  [op |-> "none", pc |-> "idle", name |-> "-", id |-> 0, res |-> "none",
   had |-> 0, len0 |-> 0, old |-> 0, i |-> 1, to_remove |-> <<>>,
   stats |-> NoStats, results |-> <<>>, snap |-> {}, peer |-> FALSE,
   emitted |-> "-", prev |-> NoPrev, ids |-> {}, dropped |-> {},
   loaded |-> "-"]

\* ---------------------------------------------------- watcher value domains
\* The instants at which something happens, in units of 50 ms.
Instants == {0, 2, 10, 12, 13}
\* WatchConfig.debounce in the same units: 100 ms and the default, 500 ms.
Debounces == {2, 10}
\* WatchConfig.extensions.
ExtensionLists == {<<"fsx">>, <<"txt", "toml">>}

WatchConfigs == [debounce : Debounces, extensions : ExtensionLists]

\* File paths, each as its file name split at the dots: a.fsx, b.fsx, c.txt,
\* noext and the hidden file .fsx.
FilePaths == {<<"a", "fsx">>, <<"b", "fsx">>, <<"c", "txt">>, <<"noext">>, <<"", "fsx">>}
NoPath == <<>>
\* Event.paths of a raw event.
RawPathLists ==
  {<<>>} \cup {<<p>> : p \in FilePaths} \cup {<<<<"c", "txt">>, <<"a", "fsx">>>>}
\* EventKind of a raw event.
EventKinds == {"Create", "Modify", "Access"}
\* What the backend hands to the callback: Ok(event) or Err(error).
RawResults ==
  {[ok |-> FALSE, kind |-> "-", paths |-> <<>>]}
    \cup [ok : {TRUE}, kind : EventKinds, paths : RawPathLists]

\* The directories passed to watch and unwatch.
WatchDirs == {"p", "q", "r"}

\* The thread of the backend, which runs the callback.
CallbackThreads == {"n1"}

NoEvent == [kind |-> "-", path |-> NoPath]
\* A backend thread outside the callback. In the callback, `out` is what
\* became of the raw result, `path` the first path of a filtered event, `at`
\* the instant of the debounce check and `k` the number of handlers then.
CbIdle ==
  [pc |-> "idle", ev |-> NoEvent, at |-> 0, i |-> 1, out |-> "-", path |-> NoPath,
   k |-> 0]
\* The owner before its first operation on the watcher.
ApiIdle == [op |-> "none", pc |-> "idle", res |-> "-", path |-> "-"]

\* ------------------------------------------------------------- state guards
\* Plugin::initialize, the state check.
InitializeAllowed(s) == s = "Created" \/ s = "Stopped"
StartAllowedLoose(s) == s = "Initialized" \/ s = "Stopped"
\* Plugin::start, the state check.
StartAllowed(s) == s = "Initialized"
StopAllowedLoose(s) == s = "Running" \/ s = "Initialized"
\* Plugin::stop, the state check.
StopAllowed(s) == s = "Running"
CallAllowedLoose(s) == s = "Running" \/ s = "Stopped"
\* Plugin::call, the state check.
CallAllowed(s) == s = "Running"
ReloadAllowedLoose(s) == TRUE
\* Plugin::reload, the state check.
ReloadAllowed(s) == s # "Unloaded"
\* LifecycleState::can_start.
can_start(s) == s = "Initialized"
\* LifecycleState::can_stop.
can_stop(s) == s = "Running"
\* LifecycleState::can_call.
can_call(s) == s = "Running"
\* LifecycleState::can_reload.
can_reload(s) == s \in {"Initialized", "Running", "Stopped", "Error"}
FunctionCallableAny(exports, f) == TRUE
WasRunningLoose(s) == s = "Running" \/ s = "Stopped"
\* Plugin::reload, `let was_running = ..`.
WasRunning(s) == s = "Running"
\* Plugin::call, the export check.
FunctionCallable(exports, f) == f \in exports \/ f = "main"

RECURSIVE VerifyCapabilitiesNoHas(_, _, _)
VerifyCapabilitiesNoHas(caps, granted, i) ==
  IF i > Len(caps) THEN [res |-> "Ok", cap |-> "-"]
  ELSE IF CapabilityFromName(caps[i]) = "None"
       THEN [res |-> "InvalidManifest", cap |-> caps[i]]
  ELSE VerifyCapabilitiesNoHas(caps, granted, i + 1)

\* Plugin::initialize, the capability loop: the first declared name, in
\* manifest order, that does not resolve or is not granted.
RECURSIVE VerifyCapabilities(_, _, _)
VerifyCapabilities(caps, granted, i) ==
  IF i > Len(caps) THEN [res |-> "Ok", cap |-> "-"]
  ELSE IF CapabilityFromName(caps[i]) = "None"
       THEN [res |-> "InvalidManifest", cap |-> caps[i]]
  ELSE IF CapabilityFromName(caps[i]) \notin granted
       THEN [res |-> "MissingCapability", cap |-> caps[i]]
  ELSE VerifyCapabilities(caps, granted, i + 1)

\* Plugin::initialize as a whole: its result for a state, a manifest's
\* capability list and an engine configuration (granted capabilities, and
\* whether Engine::new accepts the configuration).
InitializeOutcome(s, caps, granted, valid) ==
  IF ~InitializeAllowed(s) THEN [res |-> "InvalidState", cap |-> "-"]
  ELSE LET v == VerifyCapabilities(caps, granted, 1) IN
       IF v.res # "Ok" THEN v
       ELSE IF ~valid THEN [res |-> "InitializationFailed", cap |-> "-"]
       ELSE [res |-> "Ok", cap |-> "-"]

\* `if exports.contains(name) { if let Some(engine) = ... }`: the hook runs.
HookRuns(name) == name \in manifest.exports /\ engine

LockShared == TRUE
\* The write lock of Plugin.inner can be taken.
LockFree == lock = NoThread

\* ------------------------------------------------------------ initial state
\* Plugin::new and PluginInfo::new: Created, no engine, no bytecode, counters 0.
InitPlugin ==
  /\ state = "Created"
  /\ engine = FALSE
  /\ bytecode = FALSE
  /\ invocation_count = 0
  /\ reload_count = 0
  /\ last_reload = 0
  /\ lock = NoThread
  /\ observed = "Created"
  /\ th = [t \in Threads |-> IdleRec]
  /\ forced = FALSE
  /\ load = NoLoad

\* PluginRegistry::default_config with no plugin created for it.
NoRegistry ==
  /\ plugins = [n \in Names |-> 0]
  /\ pstate = [p \in PluginIds |-> "Created"]
  /\ config = [max_plugins |-> MaxPluginsLimit, allow_overwrite |-> FALSE,
               auto_unload_stopped |-> FALSE]
  /\ handles = {}
  /\ rt = [t \in Threads |-> RegIdle]

\* PluginWatcher::new(config): not running, no backend, nothing watched, no
\* handler, an empty debounce map.
NewWatcher(cs) ==
  /\ wconfig \in cs
  /\ watcher = FALSE
  /\ running = FALSE
  /\ watched_paths = <<>>
  /\ installed = {}
  /\ last_events = <<>>
  /\ handlers = <<>>
  /\ wlock = NoThread
  /\ clock = 0
  /\ cb = [c \in CallbackThreads |-> CbIdle]
  /\ api = ApiIdle
  /\ nevents = 0
  /\ received = [p \in FilePaths |-> {}]
  /\ dispatched = {}
  /\ delivered = <<>>

\* A caller outside Plugin::new.
NotCreating == [pc |-> "idle", id |-> 0, begun |-> 0]

\* The manifests handed to Manifest::validate: name, version, source and
\* bytecode each empty or absent ("" for the strings, {} for None) or not.
ValidationManifests ==
  [name : {"", "valid"}, version : {"", "1.0.0"}, source : {{}, {"test.fsx"}},
   bytecode : {{}, {"test.fzb"}}, capabilities : CapLists]

\* No plugin created yet: NEXT_PLUGIN_ID is 1.
NoIds ==
  /\ next_plugin_id = 1
  /\ creating = [t \in Threads |-> NotCreating]
  /\ made = <<>>
  /\ clones = <<>>
  /\ stamp = 0

\* The manifests ms, not validated yet.
NewValidation(ms) == validation \in [m : ms, res : {"none"}, before : {"none"}]

\* No plugin created, and the manifest of the tests not validated yet.
NoAux ==
  /\ NoIds
  /\ NewValidation({[name |-> "valid", version |-> "1.0.0",
                     source |-> {"test.fsx"}, bytecode |-> {},
                     capabilities |-> <<>>]})

\* PluginWatcher::default_config.
NoWatcher == NewWatcher({[debounce |-> 10, extensions |-> <<"fsx">>]})

Init ==
  /\ manifest \in SmallManifests
  /\ InitPlugin
  /\ NoRegistry
  /\ NoWatcher
  /\ NoAux

InitSeq ==
  /\ manifest \in Manifests
  /\ InitPlugin
  /\ NoRegistry
  /\ NoWatcher
  /\ NoAux

\* ------------------------------------------------------- callers' operations
Ret(t, res) == [th[t] EXCEPT !.pc = "ret", !.res = res]

\* A caller enters an operation of the plugin with its arguments. `peer`
\* records that this start() was entered on an Initialized plugin while another
\* caller's start() was still in flight; it is cleared as soon as that other
\* caller enters a new operation.
Enter(t, rec) ==
  /\ th[t].pc = "idle"
  /\ th' = [u \in Threads |-> IF u = t THEN rec ELSE [th[u] EXCEPT !.peer = FALSE]]
  /\ UNCHANGED <<pluginVars, lock, observed, forced, load>>

\* A caller enters one of the lifecycle operations.
Invoke(t) ==
  \/ Enter(t, [IdleRec EXCEPT !.op = "start", !.pc = "wait",
                 !.peer = /\ state = "Initialized"
                          /\ \E u \in Threads \ {t} :
                               th[u].op = "start" /\ th[u].pc # "idle"])
  \/ \E op \in {"initialize", "stop", "unload", "reload"} :
       Enter(t, [IdleRec EXCEPT !.op = op, !.pc = "wait"])
  \/ \E f \in CallNames :
       Enter(t, [IdleRec EXCEPT !.op = "call", !.pc = "wait", !.fn = f])

\* A caller enters set_state or set_bytecode.
InvokeSetter(t) ==
  \/ \E target \in LifecycleStates :
       Enter(t, [IdleRec EXCEPT !.op = "set_state", !.pc = "wait", !.target = target])
  \/ Enter(t, [IdleRec EXCEPT !.op = "set_bytecode", !.pc = "wait"])

\* `let mut inner = self.inner.write();`
Acquire(t) ==
  /\ th[t].pc = "wait"
  /\ LockFree
  /\ th[t].op = "call" => invocation_count < MaxCalls
  /\ th[t].op = "reload" => reload_count < MaxReloads
  /\ lock' = t
  /\ th' = [th EXCEPT ![t].pc = "check"]
  /\ UNCHANGED <<pluginVars, observed, forced, load>>

At(t, op, pc) == th[t].op = op /\ th[t].pc = pc

\* Plugin::initialize, under the lock, for an engine configuration: the
\* capabilities it grants and whether Engine::new accepts it.
InitializeBody(t) ==
  /\ At(t, "initialize", "check")
  /\ \E caps \in SUBSET Capabilities, valid \in BOOLEAN :
       LET o == InitializeOutcome(state, manifest.capabilities, caps, valid) IN
         /\ th' = [th EXCEPT ![t] = [Ret(t, o.res) EXCEPT !.cap = o.cap,
                                        !.caps = caps, !.valid = valid]]
         /\ IF o.res = "Ok"
            THEN engine' = TRUE /\ state' = "Initialized"
            ELSE UNCHANGED <<engine, state>>
  /\ UNCHANGED <<manifest, bytecode, invocation_count, reload_count, last_reload,
                 lock, observed, forced, load>>

\* Plugin::start up to the init() hook.
StartCheck(t) ==
  /\ At(t, "start", "check")
  /\ IF ~StartAllowed(state)
     THEN th' = [th EXCEPT ![t] = Ret(t, "InvalidState")] /\ UNCHANGED state
     ELSE IF HookRuns("init")
     THEN th' = [th EXCEPT ![t].pc = "exec_init"] /\ UNCHANGED state
     ELSE th' = [th EXCEPT ![t] = Ret(t, "Ok")] /\ state' = "Running"
  /\ UNCHANGED <<manifest, engine, bytecode, invocation_count, reload_count,
                 last_reload, lock, observed, forced, load>>

\* Plugin::start: engine.execute("init()") and what follows it.
StartExecInit(t) ==
  /\ At(t, "start", "exec_init")
  /\ \E ok \in BOOLEAN :
       IF ok
       THEN /\ th' = [th EXCEPT ![t] = [Ret(t, "Ok") EXCEPT !.ranInit = TRUE]]
            /\ state' = "Running"
       ELSE /\ th' = [th EXCEPT ![t] = [Ret(t, "InitializationFailed") EXCEPT !.ranInit = TRUE]]
            /\ UNCHANGED state
  /\ UNCHANGED <<manifest, engine, bytecode, invocation_count, reload_count,
                 last_reload, lock, observed, forced, load>>

\* Plugin::stop up to the cleanup() hook.
StopCheck(t) ==
  /\ At(t, "stop", "check")
  /\ IF ~StopAllowed(state)
     THEN th' = [th EXCEPT ![t] = Ret(t, "InvalidState")] /\ UNCHANGED state
     ELSE IF HookRuns("cleanup")
     THEN th' = [th EXCEPT ![t].pc = "exec_cleanup"] /\ UNCHANGED state
     ELSE th' = [th EXCEPT ![t] = Ret(t, "Ok")] /\ state' = "Stopped"
  /\ UNCHANGED <<manifest, engine, bytecode, invocation_count, reload_count,
                 last_reload, lock, observed, forced, load>>

\* Plugin::stop: `let _ = engine.execute("cleanup()")`. Whether cleanup()
\* succeeded is kept in the caller's record only; the code drops it.
StopExecCleanup(t) ==
  /\ At(t, "stop", "exec_cleanup")
  /\ \E ok \in BOOLEAN :
       th' = [th EXCEPT ![t] = [Ret(t, "Ok") EXCEPT
                                  !.cleanup = IF ok THEN "ok" ELSE "failed"]]
  /\ state' = "Stopped"
  /\ UNCHANGED <<manifest, engine, bytecode, invocation_count, reload_count,
                 last_reload, lock, observed, forced, load>>

\* Plugin::unload, the teardown: engine and bytecode dropped, state Unloaded.
Teardown(t) ==
  /\ th' = [th EXCEPT ![t] = Ret(t, "Ok")]
  /\ engine' = FALSE
  /\ bytecode' = FALSE
  /\ state' = "Unloaded"

\* Plugin::unload up to the cleanup() hook (run only when Running).
UnloadCheck(t) ==
  /\ At(t, "unload", "check")
  /\ IF state = "Running" /\ HookRuns("cleanup")
     THEN th' = [th EXCEPT ![t].pc = "exec_cleanup"] /\ UNCHANGED <<engine, bytecode, state>>
     ELSE Teardown(t)
  /\ UNCHANGED <<manifest, invocation_count, reload_count, last_reload,
                 lock, observed, forced, load>>

\* Plugin::unload: cleanup() executed (result dropped), then the teardown.
UnloadExecCleanup(t) ==
  /\ At(t, "unload", "exec_cleanup")
  /\ Teardown(t)
  /\ UNCHANGED <<manifest, invocation_count, reload_count, last_reload,
                 lock, observed, forced, load>>

\* Plugin::call up to the dispatch: state, export and engine checks, then
\* invocation_count += 1.
CallCheck(t) ==
  /\ At(t, "call", "check")
  /\ IF ~CallAllowed(state)
     THEN th' = [th EXCEPT ![t] = Ret(t, "InvalidState")] /\ UNCHANGED invocation_count
     ELSE IF ~FunctionCallable(manifest.exports, th[t].fn)
     THEN th' = [th EXCEPT ![t] = Ret(t, "FunctionNotFound")] /\ UNCHANGED invocation_count
     ELSE IF ~engine
     THEN th' = [th EXCEPT ![t] = Ret(t, "InvalidState")] /\ UNCHANGED invocation_count
     ELSE th' = [th EXCEPT ![t].pc = "dispatch"] /\ invocation_count' = invocation_count + 1
  /\ UNCHANGED <<manifest, state, engine, bytecode, reload_count, last_reload,
                 lock, observed, forced, load>>

\* Plugin::call: engine.execute(&call_expr).
CallDispatch(t) ==
  /\ At(t, "call", "dispatch")
  /\ \E ok \in BOOLEAN :
       th' = [th EXCEPT ![t] = Ret(t, IF ok THEN "Ok" ELSE "ExecutionFailed")]
  /\ UNCHANGED <<pluginVars, lock, observed, forced, load>>

\* Plugin::reload up to the cleanup() hook. The caller's record keeps what
\* the state and the reload counters were when reload() took the lock.
ReloadCheck(t) ==
  /\ At(t, "reload", "check")
  /\ LET r == [th[t] EXCEPT !.state0 = state, !.reloads0 = reload_count,
                            !.last0 = last_reload] IN
     IF ~ReloadAllowed(state)
     THEN th' = [th EXCEPT ![t] = [r EXCEPT !.pc = "ret", !.res = "PluginUnloaded"]]
     ELSE th' = [th EXCEPT ![t] =
                   [r EXCEPT !.was_running = WasRunning(state),
                             !.pc = IF WasRunning(state) /\ HookRuns("cleanup")
                                    THEN "exec_cleanup" ELSE "reset"]]
  /\ UNCHANGED <<pluginVars, lock, observed, forced, load>>

\* Plugin::reload: cleanup() executed, its result dropped.
ReloadExecCleanup(t) ==
  /\ At(t, "reload", "exec_cleanup")
  /\ th' = [th EXCEPT ![t].pc = "reset"]
  /\ UNCHANGED <<pluginVars, lock, observed, forced, load>>

\* Plugin::reload: state = Initialized, last_reload = now, reload_count += 1,
\* and, if it was running, state = Running before init() is invoked. The
\* clock ticks once per reload, so `now` is the number of this reload.
ReloadReset(t) ==
  /\ At(t, "reload", "reset")
  /\ last_reload' = reload_count + 1
  /\ reload_count' = reload_count + 1
  /\ state' = IF th[t].was_running THEN "Running" ELSE "Initialized"
  /\ IF th[t].was_running /\ HookRuns("init")
     THEN th' = [th EXCEPT ![t].pc = "exec_init"]
     ELSE th' = [th EXCEPT ![t] = Ret(t, "Ok")]
  /\ UNCHANGED <<manifest, engine, bytecode, invocation_count, lock, observed,
                 forced, load>>

\* Plugin::reload: engine.execute("init()"), a failure becomes ReloadFailed.
ReloadExecInit(t) ==
  /\ At(t, "reload", "exec_init")
  /\ \E ok \in BOOLEAN :
       th' = [th EXCEPT ![t] = Ret(t, IF ok THEN "Ok" ELSE "ReloadFailed")]
  /\ UNCHANGED <<pluginVars, lock, observed, forced, load>>

\* Plugin::set_state.
SetStateBody(t) ==
  /\ At(t, "set_state", "check")
  /\ state' = th[t].target
  /\ forced' = TRUE
  /\ th' = [th EXCEPT ![t] = Ret(t, "Ok")]
  /\ UNCHANGED <<manifest, engine, bytecode, invocation_count, reload_count,
                 last_reload, lock, observed, load>>

\* Plugin::set_bytecode.
SetBytecodeBody(t) ==
  /\ At(t, "set_bytecode", "check")
  /\ bytecode' = TRUE
  /\ th' = [th EXCEPT ![t] = Ret(t, "Ok")]
  /\ UNCHANGED <<manifest, state, engine, invocation_count, reload_count,
                 last_reload, lock, observed, forced, load>>

\* The operation returns: the guard is dropped and readers see the state. The
\* caller keeps the operation's result; its arguments are gone.
Release(t) ==
  /\ th[t].pc = "ret"
  /\ lock' = NoThread
  /\ observed' = state
  /\ th' = [th EXCEPT ![t] = [IdleRec EXCEPT !.op = th[t].op, !.res = th[t].res,
                                             !.peer = th[t].peer,
                                             !.ranInit = th[t].ranInit]]
  /\ UNCHANGED <<pluginVars, forced, load>>

ThreadStep(t) ==
  \/ Invoke(t)
  \/ Acquire(t)
  \/ InitializeBody(t)
  \/ StartCheck(t)
  \/ StartExecInit(t)
  \/ StopCheck(t)
  \/ StopExecCleanup(t)
  \/ UnloadCheck(t)
  \/ UnloadExecCleanup(t)
  \/ CallCheck(t)
  \/ CallDispatch(t)
  \/ ReloadCheck(t)
  \/ ReloadExecCleanup(t)
  \/ ReloadReset(t)
  \/ ReloadExecInit(t)
  \/ Release(t)

SetterStep(t) ==
  \/ InvokeSetter(t)
  \/ SetStateBody(t)
  \/ SetBytecodeBody(t)

Next == (\E t \in Threads : ThreadStep(t)) /\ UNCHANGED <<regVars, watchVars, auxVars>>

\* Callers sharing one plugin.
Spec == Init /\ [][Next]_vars

NextSeq ==
  (\E t \in SeqThreads : ThreadStep(t) \/ SetterStep(t))
    /\ UNCHANGED <<regVars, watchVars, auxVars>>

\* One caller, every manifest, the setters included.
SpecSeq == InitSeq /\ [][NextSeq]_vars

\* ------------------------------------------------------------------ loader
IsCompatibleSameMinor(self, other) ==
  self.major = other.major /\ self.minor = other.minor
\* ApiVersion::is_compatible_with.
IsCompatibleWith(self, other) ==
  self.major = other.major /\ self.minor >= other.minor

\* Manifest::is_compatible_with_host, for the manifest's api_version.
IsCompatibleWithHost(api_version, host_version) ==
  IsCompatibleWith(host_version, api_version)

\* ApiVersion::to_string: "major.minor.patch", as its three numbers.
VersionToString(v) == <<v.major, v.minor, v.patch>>

\* Manifest::validate, the capability names (the manifests of this model have
\* a name, a version and an entry point).
ManifestValidate(m) ==
  IF \E i \in 1..Len(m.capabilities) : CapabilityFromName(m.capabilities[i]) = "None"
  THEN "InvalidManifest"
  ELSE "Ok"

\* PluginLoader::build_engine_config: the loader's capabilities, plus a grant
\* of every capability the manifest names.
RECURSIVE BuildEngineConfig(_, _, _)
BuildEngineConfig(caps, granted, i) ==
  IF i > Len(caps) THEN [res |-> "Ok", caps |-> granted]
  ELSE IF CapabilityFromName(caps[i]) = "None"
       THEN [res |-> "InvalidManifest", caps |-> granted]
  ELSE BuildEngineConfig(caps, granted \cup {CapabilityFromName(caps[i])}, i + 1)

\* PluginLoader::load_manifest on a loader whose engine_config grants `base`:
\* validate, version check, Plugin::new, compile and set_bytecode,
\* build_engine_config, initialize, start. The plugin is private to the
\* loader until it is returned. The compilation, Engine::new and init() each
\* succeed or fail; the version check compares the two versions. load.init is what plugin.initialize
\* returned ("-" when the load ended before it), load.res what the load did.
LoadManifest ==
  /\ load.res = "none"
  /\ \E base \in SUBSET Capabilities,
        valid, auto_start, strict, compileOk, initOk \in BOOLEAN,
        host \in ApiVersions, api_version \in ApiVersions :
       LET versionOk == IsCompatibleWithHost(api_version, host)
           cfg == BuildEngineConfig(manifest.capabilities, base, 1)
           ini == InitializeOutcome(state, manifest.capabilities, cfg.caps, valid)
           created == (strict => ManifestValidate(manifest) = "Ok") /\ versionOk
           compiled == created /\ compileOk
           initialized == compiled /\ cfg.res = "Ok" /\ ini.res = "Ok"
           started == /\ initialized
                      /\ auto_start
                      /\ StartAllowed("Initialized")
                      /\ ("init" \in manifest.exports => initOk)
           res == IF strict /\ ManifestValidate(manifest) # "Ok" THEN "InvalidManifest"
                  ELSE IF ~versionOk THEN "ApiVersionMismatch"
                  ELSE IF ~compileOk THEN "Compilation"
                  ELSE IF cfg.res # "Ok" THEN cfg.res
                  ELSE IF ini.res # "Ok" THEN ini.res
                  ELSE IF auto_start /\ ~started THEN "InitializationFailed"
                  ELSE "Ok"
           called == compiled /\ cfg.res = "Ok"
       IN /\ load' = [base |-> base, valid |-> valid, auto_start |-> auto_start,
                      strict |-> strict,
                      init |-> IF called THEN ini.res ELSE "-",
                      cap |-> IF called THEN ini.cap ELSE "-",
                      res |-> res,
                      host |-> host, api_version |-> api_version,
                      compatible |-> versionOk,
                      required |-> IF res = "ApiVersionMismatch"
                                   THEN VersionToString(api_version) ELSE <<>>,
                      provided |-> IF res = "ApiVersionMismatch"
                                   THEN VersionToString(host) ELSE <<>>]
          /\ bytecode' = compiled
          /\ engine' = initialized
          /\ state' = IF started THEN "Running"
                      ELSE IF initialized THEN "Initialized"
                      ELSE state
  /\ UNCHANGED <<manifest, invocation_count, reload_count, last_reload, lock,
                 observed, th, forced, regVars, watchVars, auxVars>>

\* One load_manifest of a loader, every manifest.
SpecLoader == InitSeq /\ [][LoadManifest]_vars

\* ---------------------------------------------------------------- registry
\* The state of the single-plugin model and of the watcher, which no registry
\* operation touches.
soloVars == <<manifest, state, engine, bytecode, invocation_count, reload_count,
              last_reload, lock, observed, th, forced, load, watchVars,
              auxVars>>

\* PluginRegistry::len.
RegLen == Cardinality({n \in Names : plugins[n] # 0})
\* PluginRegistry::get: the plugin mapped to the name, 0 for None.
Get(name) == plugins[name]
\* PluginRegistry::contains.
Contains(name) == plugins[name] # 0

AtCapacityLoose == RegLen > config.max_plugins
\* PluginRegistry::register, the capacity check.
AtCapacity == RegLen >= config.max_plugins

MayOverwriteAlways == TRUE
\* PluginRegistry::register, `if !self.config.allow_overwrite`.
MayOverwrite == config.allow_overwrite

InsertedNowhere(name, id) == plugins
\* `self.plugins.insert(name, plugin)`.
Inserted(name, id) == [plugins EXCEPT ![name] = id]

RemovedNothing(name) == plugins
\* `self.plugins.remove(name)`.
Removed(name) == [plugins EXCEPT ![name] = 0]

\* PluginRegistry::cleanup, the filter.
Removable(s) == s = "Unloaded" \/ (config.auto_unload_stopped /\ s = "Stopped")

StopsAtError(res) == res = "Ok"
\* start_all, stop_all and reload_all collect a Vec<Result<()>>: the iteration
\* goes on whatever the result of one plugin is.
BulkContinues(res) == TRUE

\* The first entry an iteration of the map meets at or after position i of
\* NameOrder, 0 when there is none.
NextEntry(i) ==
  LET js == {j \in i..Len(NameOrder) : plugins[NameOrder[j]] # 0} IN
    IF js = {} THEN 0 ELSE CHOOSE j \in js : \A k \in js : j <= k

\* One operation of a Plugin, from its state check to its return, as one step
\* under the plugin's lock: the state it leaves and what it returns. `ok` is
\* whether Engine::new (initialize) or the init() hook (start, reload) succeeds.
PluginOpOutcome(s, op, ok) ==
  CASE op = "initialize" ->
         IF ~InitializeAllowed(s) THEN [state |-> s, res |-> "InvalidState"]
         ELSE IF ok THEN [state |-> "Initialized", res |-> "Ok"]
         ELSE [state |-> s, res |-> "InitializationFailed"]
    [] op = "start" ->
         IF ~StartAllowed(s) THEN [state |-> s, res |-> "InvalidState"]
         ELSE IF ok THEN [state |-> "Running", res |-> "Ok"]
         ELSE [state |-> s, res |-> "InitializationFailed"]
    [] op = "stop" ->
         IF ~StopAllowed(s) THEN [state |-> s, res |-> "InvalidState"]
         ELSE [state |-> "Stopped", res |-> "Ok"]
    [] op = "unload" -> [state |-> "Unloaded", res |-> "Ok"]
    [] op = "reload" ->
         IF ~ReloadAllowed(s) THEN [state |-> s, res |-> "PluginUnloaded"]
         ELSE IF s = "Running"
         THEN [state |-> "Running", res |-> IF ok THEN "Ok" ELSE "ReloadFailed"]
         ELSE [state |-> "Initialized", res |-> "Ok"]

HandleOps == {"initialize", "start", "stop", "unload", "reload"}

\* The registry operation of caller t is at position pc.
RegAt(t, op, pc) == rt[t].op = op /\ rt[t].pc = pc

\* The operation op of caller t is returning.
RegDone(t, op) == rt[t].op = op /\ rt[t].pc = "ret"

\* The operation returns res.
Done(t, res) == [rt[t] EXCEPT !.pc = "ret", !.res = res]

\* A caller enters an operation. `peer` (see RegInvoke) is cleared as soon as
\* the other caller enters a new operation.
RegEnter(t, rec) ==
  /\ rt[t].pc = "idle"
  /\ rt' = [u \in Threads |-> IF u = t THEN rec ELSE [rt[u] EXCEPT !.peer = FALSE]]
  /\ UNCHANGED <<plugins, pstate, config, handles>>

\* A caller enters register or unregister. `peer` records that
\* this unregister was entered while another caller's unregister of the same
\* name was in flight with the entry there for exactly one of them: still in
\* the map, or just taken out of it by the other caller.
RegInvoke(t) ==
  \/ \E p \in handles :
       RegEnter(t, [RegIdle EXCEPT !.op = "register", !.pc = "cap", !.id = p,
                      !.name = PluginName(p), !.had = Get(PluginName(p)),
                      !.len0 = RegLen])
  \/ \E n \in Names :
       RegEnter(t, [RegIdle EXCEPT !.op = "unregister", !.pc = "remove", !.name = n,
                      !.had = Get(n), !.len0 = RegLen,
                      !.peer = \E u \in Threads \ {t} :
                                 /\ rt[u].op = "unregister" /\ rt[u].name = n
                                 /\ \/ rt[u].pc = "unload" /\ ~Contains(n)
                                    \/ rt[u].pc = "remove" /\ Contains(n)])

\* A caller enters cleanup or stats.
RegInvokeScan(t) ==
  \/ RegEnter(t, [RegIdle EXCEPT !.op = "cleanup", !.pc = "scan"])
  \/ RegEnter(t, [RegIdle EXCEPT !.op = "stats", !.pc = "total"])

\* The plugins an iteration started now would find in state s.
InState(s) == {n \in Names : Contains(n) /\ pstate[plugins[n]] = s}

\* A caller enters get, start_all, stop_all or reload_all. `snap` is the set
\* of entries the bulk operation is due to act on.
RegInvokeSeq(t) ==
  \/ \E n \in Names :
       RegEnter(t, [RegIdle EXCEPT !.op = "get", !.pc = "get", !.name = n])
  \/ RegEnter(t, [RegIdle EXCEPT !.op = "start_all", !.pc = "bulk",
                    !.snap = InState("Initialized")])
  \/ RegEnter(t, [RegIdle EXCEPT !.op = "stop_all", !.pc = "bulk",
                    !.snap = InState("Running")])
  \/ RegEnter(t, [RegIdle EXCEPT !.op = "reload_all", !.pc = "bulk",
                    !.snap = {n \in Names : Contains(n)}])

\* The plugins the map holds.
Registered == {plugins[n] : n \in {m \in Names : Contains(m)}}

\* A caller enters unload_all.
RegInvokeUnloadAll(t) ==
  RegEnter(t, [RegIdle EXCEPT !.op = "unload_all", !.pc = "unload_each",
                 !.ids = Registered, !.len0 = RegLen])

\* A caller enters unload_all, or the owner drops the registry.
RegInvokeEnd(t) ==
  \/ RegInvokeUnloadAll(t)
  \/ RegEnter(t, [RegIdle EXCEPT !.op = "drop", !.pc = "unload_each",
                    !.ids = Registered, !.len0 = RegLen])

\* A caller uses a handle it holds: one operation of that plugin.
HandleOp(t) ==
  /\ rt[t].pc = "idle"
  /\ \E p \in handles, op \in HandleOps :
     \E ok \in IF op \in {"start", "reload"} THEN BOOLEAN ELSE {TRUE} :
       pstate' = [pstate EXCEPT ![p] = PluginOpOutcome(pstate[p], op, ok).state]
  /\ UNCHANGED <<plugins, config, handles, rt>>

\* PluginRegistry::register, the capacity check.
RegisterCapacity(t) ==
  /\ RegAt(t, "register", "cap")
  /\ rt' = [rt EXCEPT ![t] = IF AtCapacity THEN Done(t, "Registry")
                             ELSE [rt[t] EXCEPT !.pc = "dup"]]
  /\ UNCHANGED <<plugins, pstate, config, handles>>

\* PluginRegistry::register, `if self.plugins.contains_key(&name)`.
RegisterDuplicate(t) ==
  /\ RegAt(t, "register", "dup")
  /\ rt' = [rt EXCEPT ![t] =
              IF ~Contains(rt[t].name) THEN [rt[t] EXCEPT !.pc = "ins"]
              ELSE IF ~MayOverwrite THEN Done(t, "PluginAlreadyLoaded")
              ELSE [rt[t] EXCEPT !.pc = "rm"]]
  /\ UNCHANGED <<plugins, pstate, config, handles>>

\* PluginRegistry::register, `if let Some((_, existing)) = self.plugins.remove(&name)`.
RegisterRemoveExisting(t) ==
  /\ RegAt(t, "register", "rm")
  /\ IF Contains(rt[t].name)
     THEN /\ plugins' = Removed(rt[t].name)
          /\ rt' = [rt EXCEPT ![t].old = plugins[rt[t].name], ![t].pc = "unl"]
     ELSE /\ rt' = [rt EXCEPT ![t].pc = "ins"]
          /\ UNCHANGED plugins
  /\ UNCHANGED <<pstate, config, handles>>

\* PluginRegistry::register, `let _ = existing.inner().unload()`.
RegisterUnloadExisting(t) ==
  /\ RegAt(t, "register", "unl")
  /\ pstate' = [pstate EXCEPT ![rt[t].old] = PluginOpOutcome(@, "unload", TRUE).state]
  /\ rt' = [rt EXCEPT ![t].pc = "ins"]
  /\ UNCHANGED <<plugins, config, handles>>

\* PluginRegistry::register: insert, emit Created, Ok.
RegisterInsert(t) ==
  /\ RegAt(t, "register", "ins")
  /\ plugins' = Inserted(rt[t].name, rt[t].id)
  /\ rt' = [rt EXCEPT ![t] = [Done(t, "Ok") EXCEPT !.emitted = "Created"]]
  /\ UNCHANGED <<pstate, config, handles>>

\* PluginRegistry::unregister, `self.plugins.remove(name).ok_or_else(...)?`.
UnregisterRemove(t) ==
  /\ RegAt(t, "unregister", "remove")
  /\ IF Contains(rt[t].name)
     THEN /\ plugins' = Removed(rt[t].name)
          /\ rt' = [rt EXCEPT ![t].old = plugins[rt[t].name], ![t].pc = "unload"]
     ELSE /\ rt' = [rt EXCEPT ![t] = Done(t, "PluginNotFound")]
          /\ UNCHANGED plugins
  /\ UNCHANGED <<pstate, config, handles>>

\* PluginRegistry::unregister: unload the plugin, emit Unloaded, Ok(plugin).
UnregisterUnload(t) ==
  /\ RegAt(t, "unregister", "unload")
  /\ pstate' = [pstate EXCEPT ![rt[t].old] = PluginOpOutcome(@, "unload", TRUE).state]
  /\ rt' = [rt EXCEPT ![t] = [Done(t, "Ok") EXCEPT !.emitted = "Unloaded"]]
  /\ UNCHANGED <<plugins, config, handles>>

\* PluginRegistry::cleanup, the pass that collects the names to remove: one
\* entry per step.
CleanupScan(t) ==
  /\ RegAt(t, "cleanup", "scan")
  /\ LET j == NextEntry(rt[t].i) IN
       rt' = [rt EXCEPT ![t] =
                IF j = 0
                THEN IF rt[t].to_remove = <<>> THEN Done(t, "Ok")
                     ELSE [rt[t] EXCEPT !.pc = "purge", !.i = 1]
                ELSE [rt[t] EXCEPT
                        !.i = j + 1,
                        !.to_remove = IF Removable(pstate[plugins[NameOrder[j]]])
                                      THEN Append(@, NameOrder[j]) ELSE @]]
  /\ UNCHANGED <<plugins, pstate, config, handles>>

\* PluginRegistry::cleanup, `for name in to_remove { self.plugins.remove(&name); }`.
CleanupPurge(t) ==
  /\ RegAt(t, "cleanup", "purge")
  /\ plugins' = Removed(rt[t].to_remove[rt[t].i])
  /\ LET r == [rt[t] EXCEPT !.dropped = @ \cup ({Get(rt[t].to_remove[rt[t].i])} \ {0})] IN
       rt' = [rt EXCEPT ![t] = IF rt[t].i = Len(rt[t].to_remove)
                               THEN [r EXCEPT !.pc = "ret", !.res = "Ok"]
                               ELSE [r EXCEPT !.i = @ + 1]]
  /\ UNCHANGED <<pstate, config, handles>>

\* PluginRegistry::stats, `stats.total = self.plugins.len()`.
StatsTotal(t) ==
  /\ RegAt(t, "stats", "total")
  /\ rt' = [rt EXCEPT ![t].stats.total = RegLen, ![t].pc = "scan"]
  /\ UNCHANGED <<plugins, pstate, config, handles>>

\* The counters of RegistryStats after an entry in state s was counted.
Counted(st, s) ==
  CASE s = "Running" -> [st EXCEPT !.running = @ + 1]
    [] s = "Stopped" -> [st EXCEPT !.stopped = @ + 1]
    [] s = "Error" -> [st EXCEPT !.error = @ + 1]
    [] s = "Unloaded" -> [st EXCEPT !.unloaded = @ + 1]
    [] OTHER -> st

\* PluginRegistry::stats, the pass over the entries: one entry per step.
StatsScan(t) ==
  /\ RegAt(t, "stats", "scan")
  /\ LET j == NextEntry(rt[t].i) IN
       rt' = [rt EXCEPT ![t] =
                IF j = 0 THEN Done(t, "Ok")
                ELSE [rt[t] EXCEPT !.i = j + 1,
                                   !.stats = Counted(@, pstate[plugins[NameOrder[j]]])]]
  /\ UNCHANGED <<plugins, pstate, config, handles>>

\* A caller goes from the return of its register or unregister straight to
\* get and contains of the same name.
GetAfter(t) ==
  /\ rt[t].pc = "ret"
  /\ rt[t].op \in {"register", "unregister"}
  /\ rt[t].loaded = "-"
  /\ rt' = [rt EXCEPT ![t] =
              [RegIdle EXCEPT !.op = "get", !.pc = "get", !.name = rt[t].name,
                              !.prev = [op |-> rt[t].op, id |-> rt[t].id,
                                        res |-> rt[t].res]]]
  /\ UNCHANGED <<plugins, pstate, config, handles>>

\* PluginRegistry::get and contains.
GetBody(t) ==
  /\ RegAt(t, "get", "get")
  /\ rt' = [rt EXCEPT ![t] = [Done(t, IF Contains(rt[t].name) THEN "Some" ELSE "None")
                                EXCEPT !.id = Get(rt[t].name)]]
  /\ UNCHANGED <<plugins, pstate, config, handles>>

\* The Plugin operation a bulk operation applies, and the state it filters on.
BulkOp(op) ==
  CASE op = "start_all" -> [op |-> "start", from |-> {"Initialized"}]
    [] op = "stop_all" -> [op |-> "stop", from |-> {"Running"}]
    [] op = "reload_all" -> [op |-> "reload", from |-> LifecycleStates]

\* start_all, stop_all, reload_all: the iterator meets the next entry; if it
\* passes the filter the operation is applied and its result collected.
BulkStep(t) ==
  /\ rt[t].pc = "bulk"
  /\ LET j == NextEntry(rt[t].i)
         b == BulkOp(rt[t].op) IN
       IF j = 0
       THEN rt' = [rt EXCEPT ![t] = Done(t, "Ok")] /\ UNCHANGED pstate
       ELSE LET q == plugins[NameOrder[j]] IN
         IF pstate[q] \notin b.from
         THEN rt' = [rt EXCEPT ![t].i = j + 1] /\ UNCHANGED pstate
         ELSE \E ok \in BOOLEAN :
                LET o == PluginOpOutcome(pstate[q], b.op, ok) IN
                  /\ pstate' = [pstate EXCEPT ![q] = o.state]
                  /\ rt' = [rt EXCEPT ![t] =
                              IF BulkContinues(o.res)
                              THEN [rt[t] EXCEPT !.i = j + 1,
                                                 !.results = Append(@, o.res)]
                              ELSE [Done(t, "Ok") EXCEPT !.results = Append(@, o.res)]]
  /\ UNCHANGED <<plugins, config, handles>>

ClearedNothing == plugins
\* `self.plugins.clear()`.
Cleared == [n \in Names |-> 0]

\* unload_all and Drop, the loop: the iterator meets the next entry and its
\* plugin is unloaded, the result dropped. After the last entry unload_all
\* goes on to clear the map; the drop is over and the registry is gone.
UnloadEach(t) ==
  /\ rt[t].pc = "unload_each"
  /\ LET j == NextEntry(rt[t].i) IN
       IF j = 0
       THEN /\ rt' = [rt EXCEPT ![t].pc = IF rt[t].op = "drop" THEN "dropped"
                                                               ELSE "clear"]
            /\ UNCHANGED pstate
       ELSE LET q == plugins[NameOrder[j]] IN
              /\ pstate' = [pstate EXCEPT ![q] = PluginOpOutcome(pstate[q], "unload", TRUE).state]
              /\ rt' = [rt EXCEPT ![t].i = j + 1]
  /\ UNCHANGED <<plugins, config, handles>>

\* unload_all: the map is cleared and the operation returns.
UnloadAllClear(t) ==
  /\ RegAt(t, "unload_all", "clear")
  /\ plugins' = Cleared
  /\ rt' = [rt EXCEPT ![t] = [Done(t, "Ok") EXCEPT !.dropped = Registered]]
  /\ UNCHANGED <<pstate, config, handles>>

\* The caller has its result and is outside the registry again.
RegRelease(t) ==
  /\ rt[t].pc = "ret"
  /\ rt[t].loaded = "-"
  /\ rt' = [rt EXCEPT ![t] = RegIdle]
  /\ UNCHANGED <<plugins, pstate, config, handles>>

RegStep(t) ==
  \/ RegInvoke(t)
  \/ RegRelease(t)
  \/ HandleOp(t)
  \/ RegisterCapacity(t)
  \/ RegisterDuplicate(t)
  \/ RegisterRemoveExisting(t)
  \/ RegisterUnloadExisting(t)
  \/ RegisterInsert(t)
  \/ UnregisterRemove(t)
  \/ UnregisterUnload(t)

RegScanStep(t) ==
  \/ RegInvokeScan(t)
  \/ CleanupScan(t)
  \/ CleanupPurge(t)
  \/ StatsTotal(t)
  \/ StatsScan(t)

RegSeqStep(t) ==
  \/ RegInvokeSeq(t)
  \/ GetAfter(t)
  \/ GetBody(t)
  \/ BulkStep(t)
  \/ RegInvokeEnd(t)
  \/ UnloadEach(t)
  \/ UnloadAllClear(t)

\* PluginRegistry::new(config) and the plugins hs its callers have created,
\* each by Plugin::new.
InitRegistry(hs, cs) ==
  /\ manifest = [exports |-> {"run"}, capabilities |-> <<>>]
  /\ InitPlugin
  /\ plugins = [n \in Names |-> 0]
  /\ pstate = [p \in PluginIds |-> "Created"]
  /\ config \in cs
  /\ handles = hs
  /\ rt = [t \in Threads |-> RegIdle]
  /\ NoWatcher
  /\ NoAux

\* The handles of the concurrent specification: the plugins named "a".
SharedHandles == {p \in PluginIds : PluginName(p) = NameOrder[1]}

\* The configurations of the concurrent specification: every setting of the
\* two flags, with room for every name.
SharedConfigs == {c \in RegistryConfigs : c.max_plugins = MaxPluginsLimit}

\* The configurations of the sequential specification, which has no cleanup:
\* every capacity from 1 and both settings of allow_overwrite.
SeqConfigs ==
  {c \in RegistryConfigs : c.max_plugins >= 1 /\ ~c.auto_unload_stopped}

RegNext == (\E t \in Threads : RegStep(t) \/ RegScanStep(t)) /\ UNCHANGED soloVars

\* Two callers sharing a registry and the handles of its plugins.
SpecReg == InitRegistry(SharedHandles, SharedConfigs) /\ [][RegNext]_vars

RegNextSeq ==
  (\E t \in SeqThreads : RegStep(t) \/ RegSeqStep(t)) /\ UNCHANGED soloVars

\* One caller, every plugin, the reads and the bulk operations included.
SpecRegSeq == InitRegistry(PluginIds, SeqConfigs) /\ [][RegNextSeq]_vars

RegEndStep(t) ==
  \/ RegInvokeUnloadAll(t)
  \/ UnloadEach(t)
  \/ UnloadAllClear(t)

RegNextAll ==
  (\E t \in Threads : RegStep(t) \/ RegScanStep(t) \/ RegEndStep(t))
    /\ UNCHANGED soloVars

\* Two callers sharing a registry: register, unregister, cleanup, stats and
\* unload_all. (A drop needs the registry to itself and has no place here.)
SpecRegAll == InitRegistry(SharedHandles, SharedConfigs) /\ [][RegNextAll]_vars

\* ----------------------------------------------------------------- runtime
\* PluginRuntime::load_source, `self.loader.load_source(path)?`: the loader
\* reads and compiles the source, creates the plugin, initializes it and, with
\* auto_start, starts it. The plugin is the loader's own until it is returned,
\* so the load is one step. When the loader fails the runtime returns the
\* error and the plugin is dropped; otherwise the runtime goes on to
\* `self.registry.register(plugin.clone())`.
RuntimeLoad(t) ==
  /\ rt[t].pc = "idle"
  /\ \E p \in handles \ Registered :
     \E auto_start, readOk, compileOk, engineOk, initOk \in BOOLEAN :
       /\ pstate[p] = "Created"
       /\ LET ini == PluginOpOutcome("Created", "initialize", engineOk)
              sta == IF auto_start THEN PluginOpOutcome(ini.state, "start", initOk)
                     ELSE [state |-> ini.state, res |-> "Ok"]
              res == IF ~readOk THEN "Io"
                     ELSE IF ~compileOk THEN "Compilation"
                     ELSE IF ini.res # "Ok" THEN ini.res
                     ELSE sta.res
              left == IF ~readOk \/ ~compileOk THEN "Created"
                      ELSE IF ini.res # "Ok" THEN ini.state
                      ELSE sta.state
              rec == IF res # "Ok"
                     THEN [RegIdle EXCEPT !.op = "load_source", !.pc = "ret",
                                          !.res = res, !.id = p, !.name = PluginName(p)]
                     ELSE [RegIdle EXCEPT !.op = "register", !.pc = "cap", !.id = p,
                                          !.name = PluginName(p),
                                          !.had = Get(PluginName(p)), !.len0 = RegLen,
                                          !.loaded = "load_source"]
          IN /\ pstate' = [pstate EXCEPT ![p] = left]
             /\ handles' = IF res # "Ok" THEN handles \ {p} ELSE handles
             /\ rt' = [u \in Threads |-> IF u = t THEN rec
                                         ELSE [rt[u] EXCEPT !.peer = FALSE]]
  /\ UNCHANGED <<plugins, config>>

\* PluginRuntime::load_source, the `?` after register and `Ok(plugin)`: the
\* result of register is the result of the load. On an error both handles
\* of the plugin go out of scope.
RuntimeReturn(t) ==
  /\ RegDone(t, "register")
  /\ rt[t].loaded # "-"
  /\ rt' = [rt EXCEPT ![t].op = rt[t].loaded, ![t].loaded = "-"]
  /\ handles' = IF rt[t].res # "Ok" THEN handles \ {rt[t].id} ELSE handles
  /\ UNCHANGED <<plugins, pstate, config>>

RuntimeStep(t) ==
  \/ RuntimeLoad(t)
  \/ RuntimeReturn(t)

RuntimeNext ==
  (\E t \in SeqThreads : RegStep(t) \/ RuntimeStep(t)) /\ UNCHANGED soloVars

\* One caller of a PluginRuntime and of its registry: loads, registers,
\* unregisters and the operations of the plugins.
SpecRuntime == InitRegistry(PluginIds, SeqConfigs) /\ [][RuntimeNext]_vars

\* ----------------------------------------------------------------- watcher
\* Path::extension of a file name: the part after the last dot, unless there
\* is no dot or the only dot is the leading one. {} is None.
Extension(path) ==
  IF Len(path) < 2 \/ (Len(path) = 2 /\ path[1] = "") THEN {} ELSE {path[Len(path)]}

MatchesAny(ev, extensions) == TRUE
\* WatchEvent::matches_extension.
MatchesExtension(ev, extensions) ==
  \E ext \in Extension(ev.path) : \E k \in 1..Len(extensions) : extensions[k] = ext

\* handle_event, the conversion: Created, Modified or Removed of the first
\* path; {} is None.
ToWatchEvent(event) ==
  IF event.paths = <<>> THEN {}
  ELSE CASE event.kind = "Create" -> {[kind |-> "Created", path |-> event.paths[1]]}
         [] event.kind = "Modify" -> {[kind |-> "Modified", path |-> event.paths[1]]}
         [] event.kind = "Remove" -> {[kind |-> "Removed", path |-> event.paths[1]]}
         [] OTHER -> {}

GateOpen(r) == TRUE
\* The callback's `running.load(..)` check.
Gate(r) == r

AdmittedStrict(le, path, now, debounce) ==
  path \notin DOMAIN le \/ now - le[path] > debounce
\* handle_event, the debounce check: no last event for the path, or one that
\* is not less than `debounce` ago.
Admitted(le, path, now, debounce) ==
  path \notin DOMAIN le \/ ~(now - le[path] < debounce)

\* `last_events.insert(path, now)`.
LastInsert(le, path, now) ==
  [q \in DOMAIN le \cup {path} |-> IF q = path THEN now ELSE le[q]]

LastEventsAlways(le, path, now, admitted) == LastInsert(le, path, now)
\* last_events after the debounce check: the insert is behind the early return.
LastEventsAfter(le, path, now, admitted) ==
  IF admitted THEN LastInsert(le, path, now) ELSE le

StateLockShared == TRUE
\* `state.write()` can be taken.
StateLockFree == wlock = NoThread

\* watch_path_internal: picks the recursive mode and logs; the backend is not
\* called, so the set of paths it watches is what it was.
WatchPathInternal(inst, path) == inst

\* start, `for path in self.watched_paths.read().iter()`.
RECURSIVE Rewatch(_, _, _)
Rewatch(inst, paths, i) ==
  IF i > Len(paths) THEN inst
  ELSE Rewatch(WatchPathInternal(inst, paths[i]), paths, i + 1)

\* `paths.contains(&path)`.
PathsContain(paths, path) == \E k \in 1..Len(paths) : paths[k] = path

\* `paths.retain(|p| p != path)`.
RECURSIVE Retain(_, _)
Retain(paths, path) ==
  IF paths = <<>> THEN <<>>
  ELSE IF Head(paths) = path THEN Retain(Tail(paths), path)
  ELSE <<Head(paths)>> \o Retain(Tail(paths), path)

\* The owner's operation returns.
ApiDone(op, res, path) == [op |-> op, pc |-> "idle", res |-> res, path |-> path]

eventVars == <<last_events, wlock, cb, nevents, received, dispatched, delivered>>
pathVars == <<watched_paths, installed>>

\* Instant::now() moves on to the next instant.
Tick ==
  /\ \E t \in Instants :
       /\ t > clock
       /\ \A u \in Instants : u > clock => t <= u
       /\ clock' = t
  /\ UNCHANGED <<wconfig, watcher, running, handlers, api, eventVars, pathVars>>

\* PluginWatcher::on_change, from any thread that shares the watcher.
OnChange ==
  /\ StateLockFree
  /\ Len(handlers) < MaxHandlers
  /\ handlers' = Append(handlers, Len(handlers) + 1)
  /\ UNCHANGED <<wconfig, watcher, running, clock, api, eventVars, pathVars>>

\* PluginWatcher::start; `ok` is whether RecommendedWatcher::new succeeds.
WatchStart ==
  /\ api.pc = "idle"
  /\ IF running
     THEN /\ api' = ApiDone("start", "Ok", "-")
          /\ UNCHANGED <<watcher, running, installed>>
     ELSE \E ok \in BOOLEAN :
            IF ok
            THEN /\ watcher' = TRUE
                 /\ running' = TRUE
                 /\ installed' = Rewatch(installed, watched_paths, 1)
                 /\ api' = ApiDone("start", "Ok", "-")
            ELSE /\ api' = ApiDone("start", "Watch", "-")
                 /\ UNCHANGED <<watcher, running, installed>>
  /\ UNCHANGED <<wconfig, handlers, clock, eventVars, watched_paths>>

\* PluginWatcher::stop: running is cleared and the backend dropped, its
\* watches with it.
WatchStop ==
  /\ api.pc = "idle"
  /\ running' = FALSE
  /\ watcher' = FALSE
  /\ installed' = {}
  /\ api' = ApiDone("stop", "Ok", "-")
  /\ UNCHANGED <<wconfig, handlers, clock, eventVars, watched_paths>>

\* PluginWatcher::watch.
Watch(path) ==
  /\ api.pc = "idle"
  /\ watched_paths' = IF PathsContain(watched_paths, path) THEN watched_paths
                      ELSE Append(watched_paths, path)
  /\ installed' = IF running THEN WatchPathInternal(installed, path) ELSE installed
  /\ api' = ApiDone("watch", "Ok", path)
  /\ UNCHANGED <<wconfig, watcher, running, handlers, clock, eventVars>>

\* PluginWatcher::unwatch; the backend fails for a path it does not watch.
Unwatch(path) ==
  /\ api.pc = "idle"
  /\ watched_paths' = Retain(watched_paths, path)
  /\ IF watcher /\ path \notin installed
     THEN api' = ApiDone("unwatch", "Watch", path) /\ UNCHANGED installed
     ELSE api' = ApiDone("unwatch", "Ok", path) /\ installed' = installed \ {path}
  /\ UNCHANGED <<wconfig, watcher, running, handlers, clock, eventVars>>

\* What becomes of a raw result in the callback and in handle_event before
\* the debounce check.
Outcome(raw) ==
  IF ~Gate(running) THEN "not_running"
  ELSE IF ~raw.ok \/ ToWatchEvent(raw) = {} THEN "ignored"
  ELSE IF \E e \in ToWatchEvent(raw) : ~MatchesExtension(e, wconfig.extensions)
  THEN "filtered"
  ELSE "pending"

\* The backend hands a raw result to the callback, which runs up to the
\* debounce check of handle_event. Before the first start() there is no
\* callback and the result reaches nobody, as when the gate is closed.
Callback(c) ==
  /\ cb[c].pc = "idle"
  /\ nevents < MaxEvents
  /\ \E raw \in RawResults :
       cb' = [cb EXCEPT ![c] =
                IF Outcome(raw) = "pending"
                THEN [CbIdle EXCEPT !.pc = "debounce", !.out = "pending",
                                    !.ev = CHOOSE e \in ToWatchEvent(raw) : TRUE]
                ELSE [CbIdle EXCEPT !.pc = "return", !.out = Outcome(raw),
                                    !.path = IF Outcome(raw) = "filtered"
                                             THEN raw.paths[1] ELSE NoPath]]
  /\ nevents' = nevents + 1
  /\ UNCHANGED <<wconfig, watcher, running, handlers, clock, api, pathVars,
                 last_events, wlock, received, dispatched, delivered>>

\* The callback returns without a dispatch.
CallbackReturn(c) ==
  /\ cb[c].pc = "return"
  /\ cb' = [cb EXCEPT ![c] = CbIdle]
  /\ UNCHANGED <<wconfig, watcher, running, handlers, clock, api, pathVars,
                 last_events, wlock, nevents, received, dispatched, delivered>>

\* handle_event, under `state.write()`: the debounce check and the insert.
HandleEventDebounce(c) ==
  /\ cb[c].pc = "debounce"
  /\ StateLockFree
  /\ LET path == cb[c].ev.path
         admitted == Admitted(last_events, path, clock, wconfig.debounce) IN
       /\ received' = [received EXCEPT ![path] = @ \cup {clock}]
       /\ last_events' = LastEventsAfter(last_events, path, clock, admitted)
       /\ IF admitted
          THEN /\ dispatched' = dispatched \cup {[path |-> path, at |-> clock]}
               /\ wlock' = c
               /\ cb' = [cb EXCEPT ![c].pc = "notify", ![c].at = clock,
                                   ![c].k = Len(handlers)]
          ELSE /\ cb' = [cb EXCEPT ![c].pc = "return", ![c].out = "debounced",
                                   ![c].at = clock]
               /\ UNCHANGED <<dispatched, wlock>>
  /\ UNCHANGED <<wconfig, watcher, running, handlers, clock, api, pathVars,
                 nevents, delivered>>

\* handle_event, `for handler in &state.handlers`: the next handler is
\* invoked; after the last the guard is dropped.
HandleEventNotify(c) ==
  /\ cb[c].pc = "notify"
  /\ IF cb[c].i <= Len(handlers)
     THEN /\ delivered' = Append(delivered, [h |-> handlers[cb[c].i],
                                             path |-> cb[c].ev.path, at |-> cb[c].at])
          /\ cb' = [cb EXCEPT ![c].i = @ + 1]
          /\ UNCHANGED wlock
     ELSE /\ cb' = [cb EXCEPT ![c] = CbIdle]
          /\ wlock' = NoThread
          /\ UNCHANGED delivered
  /\ UNCHANGED <<wconfig, watcher, running, handlers, clock, api, pathVars,
                 nevents, last_events, received, dispatched>>

WatchStartStop ==
  \/ WatchStart
  \/ WatchStop

WatchNext ==
  /\ \/ Tick
     \/ OnChange
     \/ WatchStartStop
     \/ \E c \in CallbackThreads :
          \/ Callback(c)
          \/ CallbackReturn(c)
          \/ HandleEventDebounce(c)
          \/ HandleEventNotify(c)
  /\ UNCHANGED <<pluginVars, lock, observed, th, forced, load, regVars, auxVars>>

InitWatcher(cs) ==
  /\ manifest = [exports |-> {"run"}, capabilities |-> <<>>]
  /\ InitPlugin
  /\ NoRegistry
  /\ NewWatcher(cs)
  /\ NoAux

\* A watcher, its owner and the backend's threads: handlers, start and stop,
\* raw events.
SpecWatcher == InitWatcher(WatchConfigs) /\ [][WatchNext]_vars

WatchPathsNext ==
  /\ \/ WatchStartStop
     \/ \E path \in WatchDirs : Watch(path) \/ Unwatch(path)
  /\ UNCHANGED <<pluginVars, lock, observed, th, forced, load, regVars, auxVars>>

\* A watcher and its owner: start, stop, watch and unwatch.
SpecWatchPaths == InitWatcher(WatchConfigs) /\ [][WatchPathsNext]_vars

\* --------------------------------------------------------------- plugin ids
FetchAddNone(n) == n
\* `NEXT_PLUGIN_ID.fetch_add(1, ..)`: the value the counter takes.
FetchAdd(n) == n + 1

\* The state no step of Plugin::new, of a handle or of validate touches.
restVars == <<pluginVars, lock, observed, th, forced, load, regVars, watchVars>>

\* A caller enters Plugin::new.
NewCall(t) ==
  /\ creating[t].pc = "idle"
  /\ Len(made) + Cardinality({u \in Threads : creating[u].pc # "idle"}) < MaxNew
  /\ stamp' = stamp + 1
  /\ creating' = [creating EXCEPT ![t] = [pc |-> "fetch", id |-> 0, begun |-> stamp + 1]]
  /\ UNCHANGED <<next_plugin_id, made, clones, validation>>

\* Plugin::new, `let id = NEXT_PLUGIN_ID.fetch_add(1, ..)`: one atomic step.
NewFetchAdd(t) ==
  /\ creating[t].pc = "fetch"
  /\ creating' = [creating EXCEPT ![t].id = next_plugin_id, ![t].pc = "build"]
  /\ next_plugin_id' = FetchAdd(next_plugin_id)
  /\ UNCHANGED <<made, clones, stamp, validation>>

\* Plugin::new returns the plugin and PluginHandle::new wraps it.
NewReturn(t) ==
  /\ creating[t].pc = "build"
  /\ stamp' = stamp + 1
  /\ made' = Append(made, [id |-> creating[t].id, begun |-> creating[t].begun,
                           ended |-> stamp + 1, live |-> TRUE])
  /\ clones' = Append(clones, [plugin |-> Len(made) + 1, from |-> 0])
  /\ creating' = [creating EXCEPT ![t] = NotCreating]
  /\ UNCHANGED <<next_plugin_id, validation>>

\* PluginHandle::id: the id of the plugin behind the handle.
HandleId(h) == made[clones[h].plugin].id

\* PluginHandle::clone: another handle on the same Arc<Plugin>.
CloneHandle ==
  /\ Len(clones) < Len(made) + MaxClones
  /\ \E h \in 1..Len(clones) :
       clones' = Append(clones, [plugin |-> clones[h].plugin, from |-> h])
  /\ UNCHANGED <<next_plugin_id, creating, made, stamp, validation>>

\* A plugin is unloaded, or its last handle dropped.
Retire ==
  /\ \E k \in 1..Len(made) :
       /\ made[k].live
       /\ made' = [made EXCEPT ![k].live = FALSE]
  /\ UNCHANGED <<next_plugin_id, creating, clones, stamp, validation>>

IdNext ==
  /\ \/ \E t \in Threads : NewCall(t) \/ NewFetchAdd(t) \/ NewReturn(t)
     \/ CloneHandle
     \/ Retire
  /\ UNCHANGED restVars

InitIds ==
  /\ manifest = [exports |-> {"run"}, capabilities |-> <<>>]
  /\ InitPlugin
  /\ NoRegistry
  /\ NoWatcher
  /\ NoAux

\* Callers creating plugins, cloning handles and retiring plugins.
SpecIds == InitIds /\ [][IdNext]_vars

\* ----------------------------------------------------------- validate
ValidateNoEntry(m) ==
  IF m.name = "" THEN "MissingManifestField"
  ELSE IF m.version = "" THEN "MissingManifestField"
  ELSE IF \E i \in 1..Len(m.capabilities) : CapabilityFromName(m.capabilities[i]) = "None"
  THEN "InvalidManifest"
  ELSE "Ok"
\* Manifest::validate.
Validate(m) ==
  IF m.name = "" THEN "MissingManifestField"
  ELSE IF m.version = "" THEN "MissingManifestField"
  ELSE IF m.source = {} /\ m.bytecode = {} THEN "InvalidManifest"
  ELSE IF \E i \in 1..Len(m.capabilities) : CapabilityFromName(m.capabilities[i]) = "None"
  THEN "InvalidManifest"
  ELSE "Ok"

\* manifest.validate(), or ManifestBuilder::build.
ValidateManifest ==
  /\ validation.res = "none"
  /\ validation' = [validation EXCEPT !.res = Validate(validation.m)]
  /\ UNCHANGED <<next_plugin_id, creating, made, clones, stamp>>

\* `manifest.capabilities.push(cap)` on a manifest that has been validated.
PushCapability ==
  /\ validation.res # "none"
  /\ Len(validation.m.capabilities) <= MaxCaps
  /\ \E cap \in CapNames :
       validation' = [m |-> [validation.m EXCEPT !.capabilities = Append(@, cap)],
                      res |-> "none", before |-> validation.res]
  /\ UNCHANGED <<next_plugin_id, creating, made, clones, stamp>>

ValidateNext ==
  /\ \/ ValidateManifest
     \/ PushCapability
  /\ UNCHANGED restVars

InitValidate ==
  /\ manifest = [exports |-> {"run"}, capabilities |-> <<>>]
  /\ InitPlugin
  /\ NoRegistry
  /\ NoWatcher
  /\ NoIds
  /\ NewValidation(ValidationManifests)

\* Every manifest, validated, given one more capability and validated again.
SpecValidate == InitValidate /\ [][ValidateNext]_vars

\* ================================================================== claims
InBody(t) == th[t].pc \notin {"idle", "wait"}

\* The step in which caller t returns from a lifecycle operation.
Returns(t) == th[t].pc = "ret" /\ th'[t].pc = "idle" /\ th[t].op \in LifecycleOps

\* The transition graph as C1 lists it: <<from, operation, to>>.
TransitionGraph ==
  {<<"Created", "initialize", "Initialized">>,
   <<"Initialized", "start", "Running">>,
   <<"Initialized", "reload", "Initialized">>,
   <<"Running", "stop", "Stopped">>,
   <<"Running", "reload", "Running">>,
   <<"Running", "call", "Running">>,
   <<"Stopped", "initialize", "Initialized">>,
   <<"Stopped", "reload", "Initialized">>,
   <<"Error", "reload", "Initialized">>}
  \cup {<<s, "unload", "Unloaded">> : s \in {"Initialized", "Running", "Stopped", "Error"}}

\* The graph with the two edges the code adds out of Created.
TransitionGraphFromCode ==
  TransitionGraph \cup {<<"Created", "reload", "Initialized">>,
                        <<"Created", "unload", "Unloaded">>}

C2_ReloadOutcome ==
  \A t \in Threads :
    At(t, "reload", "ret") =>
      /\ (th[t].res = "Ok" /\ th[t].was_running) => state = "Running"
      /\ th[t].res = "ReloadFailed" => state = "Initialized"

\* C3: whenever a call is at its engine dispatch, the state is Running.
C3_DispatchOnlyWhenRunning ==
  \A t \in Threads : At(t, "call", "dispatch") => state = "Running"

\* C3 witness: a call is at its dispatch while another caller's unload waits.
C3_Witness ==
  \E t, u \in Threads :
    /\ At(t, "call", "dispatch")
    /\ At(u, "unload", "wait")

\* C4 as stated: as long as only the lifecycle operations were used, the
\* engine is present exactly in Initialized, Running and Stopped.
C4_EngineIffLive ==
  ~forced => (engine <=> state \in {"Initialized", "Running", "Stopped"})

\* The step in which initialize, entered in Created or Stopped, decides.
InitializeDecides(t) ==
  /\ At(t, "initialize", "check")
  /\ th'[t].pc = "ret"
  /\ state \in {"Created", "Stopped"}

Declared == {manifest.capabilities[i] : i \in 1..Len(manifest.capabilities)}

\* The configuration lacks the i-th declared capability.
Lacks(granted, i) == CapabilityFromName(manifest.capabilities[i]) \notin granted

LacksSome(granted) == \E i \in 1..Len(manifest.capabilities) : Lacks(granted, i)

FirstLacked(granted) ==
  CHOOSE i \in 1..Len(manifest.capabilities) :
    Lacks(granted, i) /\ \A j \in 1..(i - 1) : ~Lacks(granted, j)

InitializeStores(t) ==
  /\ th'[t].res = "Ok"
  /\ engine'
  /\ state' = "Initialized"

\* C5 as stated: initialize from Created or Stopped with a configuration that
\* lacks a declared capability returns MissingCapability for a declared
\* capability and changes nothing; with every declared capability granted and
\* the engine constructed, it stores the engine and the state is Initialized.
C5_MissingCapability ==
  [][\A t \in Threads :
       InitializeDecides(t) =>
         /\ LacksSome(th'[t].caps) =>
              /\ th'[t].res = "MissingCapability"
              /\ th'[t].cap \in Declared
              /\ UNCHANGED pluginVars
         /\ (~LacksSome(th'[t].caps) /\ th'[t].valid) => InitializeStores(t)]_vars

\* C5 amended: the error is MissingCapability for the first capability, in
\* manifest order, that the configuration lacks, when that name resolves, and
\* InvalidManifest when it does not; in both cases nothing changes.
C5_MissingOrUnresolved ==
  [][\A t \in Threads :
       InitializeDecides(t) =>
         /\ LacksSome(th'[t].caps) =>
              LET c == manifest.capabilities[FirstLacked(th'[t].caps)] IN
                /\ th'[t].res = IF CapabilityFromName(c) = "None"
                                THEN "InvalidManifest" ELSE "MissingCapability"
                /\ th'[t].cap = c
                /\ UNCHANGED pluginVars
         /\ (~LacksSome(th'[t].caps) /\ th'[t].valid) => InitializeStores(t)]_vars

\* C5 witness: a Stopped plugin declaring fs:read and net:request was given a
\* configuration with fs:read only, and initialize answered MissingCapability.
C5_Witness ==
  \E t \in Threads :
    /\ At(t, "initialize", "ret")
    /\ state = "Stopped"
    /\ manifest.capabilities = <<"fs:read", "net:request">>
    /\ th[t].caps = {"FsRead"}
    /\ th[t].res = "MissingCapability" /\ th[t].cap = "net:request"

\* C6 as stated: a manifest declaring "fs:read", loaded by a loader whose
\* engine configuration grants nothing, fails at initialize with
\* MissingCapability("fs:read"); with fs:read granted initialize succeeds
\* (Engine::new accepting the configuration).
C6_LoaderMissingCapability ==
  (/\ manifest.capabilities = <<"fs:read">>
   /\ load.init # "-"
   /\ load.valid)
    => /\ load.base = {} => /\ load.init = "MissingCapability"
                            /\ load.cap = "fs:read"
                            /\ load.res = "MissingCapability"
       /\ "FsRead" \in load.base => load.init = "Ok"

\* C7: a call and a reload of the same plugin are never both inside their
\* locked bodies, so no dispatch falls between reload's cleanup() and init().
C7_CallReloadSerialized ==
  \A t, u \in Threads :
    ~(th[t].op = "call" /\ InBody(t) /\ th[u].op = "reload" /\ InBody(u))

\* C7 witness: a reload of a running plugin is past cleanup() and at init()
\* while another caller's call waits for the lock.
C7_Witness ==
  \E t, u \in Threads :
    /\ At(u, "reload", "exec_init")
    /\ "cleanup" \in manifest.exports
    /\ At(t, "call", "wait")

CallInFlight == \E t \in Threads : th[t].op = "call" /\ InBody(t)

\* C8: no step drops the engine or sets the state to Unloaded while a call is
\* in flight, and a call at its dispatch always has the engine.
C8_UnloadWaitsForCall ==
  /\ [](\A t \in Threads : At(t, "call", "dispatch") => engine)
  /\ [][((engine /\ ~engine') \/ (state # "Unloaded" /\ state' = "Unloaded"))
          => ~CallInFlight]_vars

\* C8 witness: unload was invoked and waits while a call is at its dispatch.
C8_Witness ==
  \E t, u \in Threads :
    /\ At(t, "call", "dispatch")
    /\ At(u, "unload", "wait")
    /\ engine

\* C9: two start() calls that overlapped on an Initialized plugin whose init
\* hook runs and does not fail: one returned Ok, the other InvalidState, and
\* init() was executed by exactly one of them.
C9_ConcurrentStart ==
  \A t, u \in Threads :
    (/\ t # u
     /\ th[t].op = "start" /\ th[t].pc = "idle"
     /\ th[u].op = "start" /\ th[u].pc = "idle"
     /\ th[u].peer
     /\ HookRuns("init")
     /\ th[t].res # "InitializationFailed" /\ th[u].res # "InitializationFailed")
      => /\ {th[t].res, th[u].res} = {"Ok", "InvalidState"}
         /\ th[t].ranInit # th[u].ranInit

\* C9 witness: both overlapping start() calls have returned.
C9_Witness ==
  \E t, u \in Threads :
    /\ t # u
    /\ th[t].op = "start" /\ th[t].pc = "idle"
    /\ th[u].op = "start" /\ th[u].pc = "idle"
    /\ th[u].peer
    /\ HookRuns("init")
    /\ th[t].res = "Ok" /\ th[u].res = "InvalidState"

\* C10 as stated: every lifecycle operation that finds the plugin Unloaded
\* answers PluginUnloaded and leaves state, engine, bytecode and counters.
C10_UnloadedRejectsAll ==
  [][\A t \in Threads :
       (/\ th[t].pc = "check" /\ th'[t].pc # "check"
        /\ th[t].op \in LifecycleOps
        /\ state = "Unloaded")
         => /\ th'[t].res = "PluginUnloaded"
            /\ UNCHANGED pluginVars]_vars

C12_RegisterThenGet ==
  \A t \in Threads :
    RegDone(t, "get") =>
      /\ (rt[t].prev.op = "register" /\ rt[t].prev.res = "Ok")
           => (rt[t].id = rt[t].prev.id /\ rt[t].res = "Some")
      /\ (rt[t].prev.op = "unregister" /\ rt[t].prev.res = "Ok")
           => (rt[t].id = 0 /\ rt[t].res = "None")

\* C12 witness: plugin 1 was unregistered, plugin 4 of the same name was
\* registered, and the get that followed returned plugin 4.
C12_Witness ==
  \E t \in Threads :
    /\ RegDone(t, "get")
    /\ rt[t].prev = [op |-> "register", id |-> 4, res |-> "Ok"]
    /\ rt[t].id = 4
    /\ pstate[1] = "Unloaded"

\* A register call of caller t is in progress or returning.
Registering(t) == rt[t].op = "register" /\ rt[t].pc # "idle"

\* C13: a register of a new name entered at len() = max_plugins returns the
\* Registry error and no step of it changes the map; entered at
\* len() = max_plugins - 1 it returns Ok and len() is max_plugins.
C13_CapacityBoundary ==
  /\ [](\A t \in Threads :
          (RegDone(t, "register") /\ rt[t].had = 0) =>
            /\ rt[t].len0 = config.max_plugins => rt[t].res = "Registry"
            /\ rt[t].len0 = config.max_plugins - 1 =>
                 /\ rt[t].res = "Ok"
                 /\ RegLen = config.max_plugins
                 /\ Get(rt[t].name) = rt[t].id)
  /\ [][\A t \in Threads :
          (Registering(t) /\ rt[t].had = 0 /\ rt[t].len0 = config.max_plugins)
            => plugins' = plugins]_vars

\* C13 witness: with max_plugins = 2 and "a" and "b" registered, register of
\* "c" has returned the Registry error.
C13_Witness ==
  \E t \in Threads :
    /\ RegDone(t, "register")
    /\ config.max_plugins = 2 /\ rt[t].len0 = 2
    /\ Contains("a") /\ Contains("b")
    /\ rt[t].name = "c" /\ rt[t].res = "Registry"

\* C14 as stated: with max_plugins = 2, allow_overwrite = false and "a" and
\* "b" registered, register of "c" returns the Registry error and register of
\* another plugin named "a" returns PluginAlreadyLoaded.
C14_FullThenDuplicate ==
  \A t \in Threads :
    (/\ RegDone(t, "register")
     /\ config.max_plugins = 2 /\ ~config.allow_overwrite
     /\ rt[t].len0 = 2 /\ Contains("a") /\ Contains("b"))
      => /\ rt[t].name = "c" => rt[t].res = "Registry"
         /\ rt[t].name = "a" => rt[t].res = "PluginAlreadyLoaded"

\* C15: with allow_overwrite = false and len() below max_plugins, register of
\* a name that is present returns PluginAlreadyLoaded, emits nothing, leaves
\* the name mapped to the plugin it had, and no step of it changes the map or
\* any plugin.
C15_DuplicateRejected ==
  /\ [](\A t \in Threads :
          (/\ RegDone(t, "register")
           /\ ~config.allow_overwrite
           /\ rt[t].len0 < config.max_plugins
           /\ rt[t].had # 0)
            => /\ rt[t].res = "PluginAlreadyLoaded"
               /\ Get(rt[t].name) = rt[t].had
               /\ rt[t].emitted = "-")
  /\ [][\A t \in Threads :
          (/\ Registering(t)
           /\ ~config.allow_overwrite
           /\ rt[t].len0 < config.max_plugins
           /\ rt[t].had # 0)
            => UNCHANGED <<plugins, pstate>>]_vars

\* C15 witness: plugin 1 is registered and Running, and register of plugin 4,
\* of the same name, has returned PluginAlreadyLoaded.
C15_Witness ==
  \E t \in Threads :
    /\ RegDone(t, "register")
    /\ ~config.allow_overwrite
    /\ rt[t].len0 < config.max_plugins
    /\ rt[t].had = 1 /\ rt[t].id = 4
    /\ rt[t].res = "PluginAlreadyLoaded"
    /\ pstate[1] = "Running"

\* C16 as stated: with allow_overwrite = true, register of another plugin
\* under a name that is present returns Ok; then get(name) is the new plugin,
\* len() is what it was and the plugin registered before is Unloaded.
C16_OverwriteSucceeds ==
  \A t \in Threads :
    (/\ RegDone(t, "register")
     /\ config.allow_overwrite
     /\ rt[t].had # 0 /\ rt[t].had # rt[t].id)
      => /\ rt[t].res = "Ok"
         /\ Get(rt[t].name) = rt[t].id
         /\ RegLen = rt[t].len0
         /\ pstate[rt[t].had] = "Unloaded"

\* C17: unregister of an absent name returns PluginNotFound and changes
\* neither the map nor any plugin; of a present name it removes the entry, and
\* when it returns Ok the plugin it removed is Unloaded, stays Unloaded and
\* fails the state check of call; two unregister calls of one name that
\* overlap while the entry is there end with one Ok and one PluginNotFound.
C17_Unregister ==
  /\ [](\A t, u \in Threads :
          /\ (RegDone(t, "unregister") /\ rt[t].res = "Ok")
               => /\ rt[t].old # 0
                  /\ pstate[rt[t].old] = "Unloaded"
                  /\ ~CallAllowed(pstate[rt[t].old])
          /\ (/\ t # u
              /\ RegDone(t, "unregister") /\ RegDone(u, "unregister")
              /\ rt[t].name = rt[u].name
              /\ rt[u].peer)
               => {rt[t].res, rt[u].res} = {"Ok", "PluginNotFound"})
  /\ [][/\ \A t \in Threads :
            (RegAt(t, "unregister", "remove") /\ rt'[t].pc # "remove") =>
              IF Contains(rt[t].name)
              THEN ~Contains(rt[t].name)' /\ rt'[t].pc = "unload"
              ELSE /\ rt'[t].res = "PluginNotFound"
                   /\ UNCHANGED <<plugins, pstate>>
        /\ \A p \in PluginIds : pstate[p] = "Unloaded" => pstate'[p] = "Unloaded"]_vars

\* C17 witness: two overlapping unregister calls of "a" are returning, one
\* with Ok and the plugin Unloaded, the other with PluginNotFound.
C17_Witness ==
  \E t, u \in Threads :
    /\ t # u
    /\ RegDone(t, "unregister") /\ RegDone(u, "unregister")
    /\ rt[t].name = "a" /\ rt[u].name = "a"
    /\ rt[u].peer
    /\ rt[t].res = "Ok" /\ rt[u].res = "PluginNotFound"
    /\ pstate[rt[t].old] = "Unloaded"

\* C18 as stated: every entry a step of cleanup removes holds, at that step, a
\* plugin that is Unloaded, or Stopped when auto_unload_stopped is set.
C18_CleanupRemovesOnlyDead ==
  [][\A t \in Threads :
       (RegAt(t, "cleanup", "purge") /\ rt'[t] # rt[t]) =>
         \A n \in Names :
           (Contains(n) /\ ~Contains(n)') => Removable(pstate[plugins[n]])]_vars

\* C19: start_all, stop_all and reload_all return one result for each entry
\* they were due to act on (for reload_all every entry), whatever the results
\* of the others were.
C19_BulkCollectsAll ==
  \A t \in Threads :
    (rt[t].pc = "ret" /\ rt[t].op \in {"start_all", "stop_all", "reload_all"})
      => Len(rt[t].results) = Cardinality(rt[t].snap)

\* C19 witness: start_all met two Initialized plugins; start failed for the
\* first and was still applied, with success, to the second.
C19_Witness ==
  \E t \in Threads :
    /\ RegDone(t, "start_all")
    /\ rt[t].results = <<"InitializationFailed", "Ok">>
    /\ Cardinality(rt[t].snap) = 2

\* C20 as stated: in every result of stats() the categories add up to at most
\* total.
C20_StatsSumAtMostTotal ==
  \A t \in Threads :
    RegDone(t, "stats") =>
      rt[t].stats.running + rt[t].stats.stopped + rt[t].stats.error
        + rt[t].stats.unloaded <= rt[t].stats.total

\* C28: start() is rejected with InvalidState, changing nothing, in every
\* state but Initialized; from Initialized it either fails in the exported
\* init() with InitializationFailed, the state still Initialized, or returns
\* Ok with the state Running.
C28_StartOutcome ==
  [][\A t \in Threads :
       (th[t].op = "start" /\ th[t].pc \in {"check", "exec_init"} /\ th'[t] # th[t]) =>
         IF state # "Initialized"
         THEN /\ th'[t].pc = "ret" /\ th'[t].res = "InvalidState"
              /\ UNCHANGED pluginVars
         ELSE IF th'[t].pc = "ret" /\ th'[t].res = "InitializationFailed"
         THEN /\ "init" \in manifest.exports /\ th[t].pc = "exec_init"
              /\ state' = "Initialized" /\ UNCHANGED pluginVars
         ELSE IF th'[t].pc = "ret"
         THEN th'[t].res = "Ok" /\ state' = "Running"
         ELSE /\ th'[t].pc = "exec_init" /\ "init" \in manifest.exports
              /\ UNCHANGED pluginVars]_vars

\* C28 witness: start() has run init(), which failed, and is about to return
\* InitializationFailed with the plugin still Initialized.
C28_Witness ==
  \E t \in Threads :
    /\ At(t, "start", "ret") /\ th[t].ranInit
    /\ th[t].res = "InitializationFailed"
    /\ state = "Initialized"

\* C29: stop() on a Running plugin returns Ok and leaves it Stopped whether
\* cleanup() is exported or not and whether it succeeds or fails; in every
\* other state stop() returns InvalidState and changes nothing.
C29_StopOutcome ==
  [][\A t \in Threads :
       (th[t].op = "stop" /\ th[t].pc \in {"check", "exec_cleanup"} /\ th'[t] # th[t]) =>
         IF state # "Running"
         THEN /\ th'[t].pc = "ret" /\ th'[t].res = "InvalidState"
              /\ UNCHANGED pluginVars
         ELSE IF th'[t].pc = "ret"
         THEN th'[t].res = "Ok" /\ state' = "Stopped"
         ELSE th'[t].pc = "exec_cleanup" /\ UNCHANGED pluginVars]_vars

\* C29 witness: cleanup() failed inside stop(), which returns Ok with the
\* plugin Stopped.
C29_Witness ==
  \E t \in Threads :
    /\ At(t, "stop", "ret") /\ th[t].cleanup = "failed"
    /\ th[t].res = "Ok" /\ state = "Stopped"

\* C30: a call() that reaches the engine adds exactly one to invocation_count,
\* whether the engine then succeeds or fails; a call() rejected with
\* InvalidState or FunctionNotFound leaves it alone, and nothing else changes it.
C30_CountsDispatches ==
  [][/\ \A t \in Threads :
          /\ (At(t, "call", "check") /\ th'[t] # th[t]) =>
                IF th'[t].pc = "dispatch"
                THEN /\ invocation_count' = invocation_count + 1
                     /\ state = "Running"
                     /\ th[t].fn \in manifest.exports \cup {"main"}
                ELSE /\ th'[t].pc = "ret"
                     /\ th'[t].res \in {"InvalidState", "FunctionNotFound"}
                     /\ UNCHANGED invocation_count
          /\ (At(t, "call", "dispatch") /\ th'[t] # th[t]) =>
                /\ th'[t].pc = "ret"
                /\ th'[t].res \in {"Ok", "ExecutionFailed"}
                /\ UNCHANGED invocation_count
     /\ invocation_count' # invocation_count =>
          \E t \in Threads : At(t, "call", "check") /\ th'[t].pc = "dispatch"]_vars

\* C30 witness: the engine failed the last call the bound allows, and the call
\* is counted.
C30_Witness ==
  \E t \in Threads :
    /\ At(t, "call", "ret") /\ th[t].res = "ExecutionFailed"
    /\ invocation_count = MaxCalls

\* C21: with no other caller at work, when unload_all() returns the map is
\* empty and every plugin it held when unload_all() was called is Unloaded;
\* once the registry has been dropped every plugin it held is Unloaded.
C21_UnloadAllAndDrop ==
  \A t \in Threads :
    /\ RegDone(t, "unload_all") =>
         /\ RegLen = 0
         /\ \A p \in rt[t].ids : pstate[p] = "Unloaded"
    /\ rt[t].pc = "dropped" =>
         /\ \A p \in rt[t].ids \cup Registered : pstate[p] = "Unloaded"

\* C21 witness: unload_all() returns from a registry that held two plugins
\* when it began; the map is empty and both are Unloaded.
C21_Witness ==
  \E t \in Threads :
    /\ RegDone(t, "unload_all")
    /\ rt[t].len0 = 2 /\ Cardinality(rt[t].ids) = 2
    /\ RegLen = 0
    /\ \A p \in rt[t].ids : pstate[p] = "Unloaded"

\* The instants at which an event on the path was admitted by the debounce check.
Times(path) == {d.at : d \in {x \in dispatched : x.path = path}}

\* The path has an extension and the configuration lists it.
Watched(path) ==
  \E ext \in Extension(path) :
    ext \in {wconfig.extensions[k] : k \in 1..Len(wconfig.extensions)}

\* C22: any two dispatched events for one path are at least `debounce` apart,
\* and an event is admitted exactly when every dispatched event for its own
\* path is at least `debounce` old: one that is exactly `debounce` old does
\* not suppress it, and events for other paths play no part.
C22_DebounceSpacing ==
  /\ [](\A d1 \in dispatched, d2 \in dispatched :
          (d1.path = d2.path /\ d1.at < d2.at) => d2.at - d1.at >= wconfig.debounce)
  /\ [][\A c \in CallbackThreads :
          (cb[c].pc = "debounce" /\ cb'[c].pc # "debounce") =>
            (cb'[c].pc = "notify" <=>
               \A d \in dispatched :
                 d.path = cb[c].ev.path => clock - d.at >= wconfig.debounce)]_vars

\* C22 witness: with debounce 500 ms, a.fsx was dispatched at 0, suppressed at
\* 100 ms and dispatched again at exactly 500 ms; b.fsx was dispatched at
\* 100 ms, inside the window of a.fsx.
C22_Witness ==
  /\ wconfig.debounce = 10
  /\ received[<<"a", "fsx">>] = {0, 2, 10}
  /\ dispatched = {[path |-> <<"a", "fsx">>, at |-> 0],
                   [path |-> <<"b", "fsx">>, at |-> 2],
                   [path |-> <<"a", "fsx">>, at |-> 10]}

\* C23: last_events holds, for each path, the instant of the last dispatched
\* event and nothing for a path without one, so a suppressed event does not
\* move the window; with debounce 500 ms, events for a.fsx at 0, 100, 600 and
\* 650 ms give the two dispatches at 0 and 600 ms.
C23_WindowFromLastDispatch ==
  /\ [](\A p \in FilePaths :
          IF Times(p) = {} THEN p \notin DOMAIN last_events
          ELSE /\ p \in DOMAIN last_events
               /\ last_events[p] \in Times(p)
               /\ \A t \in Times(p) : t <= last_events[p])
  /\ []((wconfig.debounce = 10 /\ received[<<"a", "fsx">>] = {0, 2, 12, 13})
          => Times(<<"a", "fsx">>) = {0, 12})
  /\ [][\A c \in CallbackThreads :
          (cb[c].pc = "debounce" /\ cb'[c].out = "debounced") =>
            UNCHANGED <<last_events, dispatched, delivered>>]_vars

\* C23 witness: the four events of the example have met the debounce check and
\* the one handler has seen the events of 0 and 600 ms.
C23_Witness ==
  /\ wconfig.debounce = 10
  /\ received[<<"a", "fsx">>] = {0, 2, 12, 13}
  /\ Times(<<"a", "fsx">>) = {0, 12}
  /\ delivered = <<[h |-> 1, path |-> <<"a", "fsx">>, at |-> 0],
                   [h |-> 1, path |-> <<"a", "fsx">>, at |-> 12]>>

\* C24: an event whose first path has no extension, or one the configuration
\* does not list, goes no further than the filter: it never meets the debounce
\* check, is never dispatched or delivered, and its path gets no entry in
\* last_events.
C24_ExtensionFilter ==
  /\ [](\A p \in FilePaths :
          ~Watched(p) =>
            /\ p \notin DOMAIN last_events
            /\ received[p] = {}
            /\ \A d \in dispatched : d.path # p
            /\ \A j \in 1..Len(delivered) : delivered[j].path # p)
  /\ [](\A c \in CallbackThreads :
          /\ cb[c].pc \in {"debounce", "notify"} => Watched(cb[c].ev.path)
          /\ cb[c].out = "filtered" => cb[c].pc = "return")
  /\ [][\A c \in CallbackThreads :
          cb'[c].out = "filtered" =>
            UNCHANGED <<last_events, received, dispatched, delivered>>]_vars

\* C24 witness: a running watcher with a handler, which has dispatched events
\* before, returns from the callback for an event on c.txt, filtered.
C24_Witness ==
  \E c \in CallbackThreads :
    /\ cb[c].pc = "return" /\ cb[c].out = "filtered"
    /\ cb[c].path = <<"c", "txt">>
    /\ running /\ handlers # <<>> /\ dispatched # {}
    /\ <<"c", "txt">> \notin DOMAIN last_events

\* C25: a raw event handed to the callback while the watcher is not running
\* is discarded there: no handler is invoked for it and the debounce map is
\* not touched. A watcher on which no operation has run is not running.
C25_NotRunningDiscards ==
  /\ [](api.op = "none" => ~running)
  /\ [][\A c \in CallbackThreads :
          (cb[c].pc = "idle" /\ cb'[c].pc # "idle" /\ ~running) =>
            /\ cb'[c].pc = "return" /\ cb'[c].out = "not_running"
            /\ UNCHANGED <<last_events, received, dispatched, delivered>>]_vars
  /\ [][\A c \in CallbackThreads :
          (cb[c].out = "not_running" /\ cb'[c] # cb[c]) =>
            /\ cb'[c] = CbIdle
            /\ UNCHANGED <<last_events, received, dispatched, delivered>>]_vars

\* C25 witness: a watcher that dispatched events while it ran has been
\* stopped, and a raw event arriving afterwards is discarded.
C25_Witness ==
  \E c \in CallbackThreads :
    /\ cb[c].out = "not_running"
    /\ api.op = "stop" /\ ~running
    /\ handlers # <<>> /\ dispatched # {}

\* C26 as stated: when start() has returned Ok every path watch() has queued
\* and unwatch() has not taken back is installed on the backend, and a path
\* passed to watch() on a running watcher is installed when watch() returns.
C26_QueuedPathsInstalled ==
  /\ (api.op = "start" /\ api.res = "Ok") =>
       \A k \in 1..Len(watched_paths) : watched_paths[k] \in installed
  /\ (api.op = "watch" /\ api.res = "Ok" /\ running) => api.path \in installed

\* C27: when handle_event has finished with an admitted event, the last
\* invocations of handlers are those of this event, one for each handler
\* registered when it was admitted, in registration order, and no handler was
\* invoked for it more than once.
C27_DeliveryOrder ==
  [][\A c \in CallbackThreads :
       (cb[c].pc = "notify" /\ cb'[c].pc = "idle") =>
         LET k == cb[c].k
             n == Len(delivered) IN
           /\ n >= k
           /\ \A h \in 1..k :
                delivered[n - k + h] =
                  [h |-> h, path |-> cb[c].ev.path, at |-> cb[c].at]
           /\ Cardinality({j \in 1..n : /\ delivered[j].path = cb[c].ev.path
                                        /\ delivered[j].at = cb[c].at}) = k
           /\ UNCHANGED delivered]_vars

\* C27 witness: two handlers have each seen the event on a.fsx and then the
\* event on b.fsx, the first handler before the second.
C27_Witness ==
  /\ delivered = <<[h |-> 1, path |-> <<"a", "fsx">>, at |-> 0],
                   [h |-> 2, path |-> <<"a", "fsx">>, at |-> 0],
                   [h |-> 1, path |-> <<"b", "fsx">>, at |-> 2],
                   [h |-> 2, path |-> <<"b", "fsx">>, at |-> 2]>>
  /\ \A c \in CallbackThreads : cb[c].pc = "idle"

\* C31 as stated: a reload() that returns ReloadFailed or PluginUnloaded
\* leaves reload_count and last_reload as they were when it began.
C31_FailedReloadKeepsCounters ==
  \A t \in Threads :
    (At(t, "reload", "ret") /\ th[t].res # "Ok") =>
      /\ reload_count = th[t].reloads0
      /\ last_reload = th[t].last0

\* C32: reload() entered in Initialized, Stopped or Error runs neither
\* cleanup() nor init(), and returns Ok with the plugin Initialized, not
\* Running, and reload_count one higher than it was.
C32_ReloadWhenNotRunning ==
  \A t \in Threads :
    (th[t].op = "reload" /\ th[t].state0 \in {"Initialized", "Stopped", "Error"}) =>
      /\ th[t].pc \notin {"exec_cleanup", "exec_init"}
      /\ ~th[t].was_running
      /\ th[t].pc = "ret" =>
           /\ th[t].res = "Ok"
           /\ state = "Initialized"
           /\ reload_count = th[t].reloads0 + 1

\* C32 witness: reload() of a plugin in Error, with init and cleanup
\* exported, returns Ok and the plugin is Initialized.
C32_Witness ==
  \E t \in Threads :
    /\ At(t, "reload", "ret") /\ th[t].state0 = "Error"
    /\ {"init", "cleanup"} \subseteq manifest.exports /\ engine
    /\ th[t].res = "Ok" /\ state = "Initialized"
    /\ reload_count = th[t].reloads0 + 1

\* The compatibility predicate as C33 writes it.
Compatible(host, plugin) == host.major = plugin.major /\ host.minor >= plugin.minor

C34_IdsUniqueMonotonic ==
  LET given == [k \in 1..Len(made) |-> made[k].id]
      fetched == {t \in Threads : creating[t].pc = "build"}
  IN  /\ \A k \in 1..Len(made) : given[k] > 0
      /\ \A j, k \in 1..Len(made) :
           /\ j # k => given[j] # given[k]
           /\ made[j].ended < made[k].begun => given[j] < given[k]
      /\ \A t \in fetched :
           /\ creating[t].id > 0
           /\ \A k \in 1..Len(made) :
                /\ creating[t].id # given[k]
                /\ made[k].ended < creating[t].begun => given[k] < creating[t].id
           /\ \A u \in fetched \ {t} : creating[u].id # creating[t].id
      /\ \A h \in 1..Len(clones) :
           clones[h].from # 0 => HandleId(h) = HandleId(clones[h].from)

\* Four plugins made, two of them by overlapping calls, the first retired
\* before the last was begun, and a clone of a clone of a handle.
C34_Witness ==
  /\ Len(made) = MaxNew
  /\ ~made[1].live
  /\ \E j, k \in 1..Len(made) :
       j # k /\ made[j].begun < made[k].ended /\ made[k].begun < made[j].ended
  /\ made[1].ended < made[MaxNew].begun
  /\ \E h \in 1..Len(clones) : clones[h].from # 0 /\ clones[clones[h].from].from # 0

\* C35: Manifest::validate succeeds exactly when the name and the version
\* are non-empty, a source or a bytecode is set and every capability name
\* resolves; otherwise it fails with MissingManifestField for an empty name or
\* version and with InvalidManifest for the rest; a manifest that validated
\* fails with InvalidManifest once "bogus:cap" is added.
C35_ValidateIff ==
  LET m == validation.m
      named == m.name # "" /\ m.version # ""
      entry == m.source # {} \/ m.bytecode # {}
      resolves == \A i \in 1..Len(m.capabilities) : m.capabilities[i] \in {"fs:read", "net:request"}
  IN  validation.res # "none" =>
        /\ validation.res = "Ok" <=> (named /\ entry /\ resolves)
        /\ ~named => validation.res = "MissingManifestField"
        /\ named /\ ~(entry /\ resolves) => validation.res = "InvalidManifest"
        /\ (validation.before = "Ok"
              /\ m.capabilities[Len(m.capabilities)] = "bogus:cap")
             => validation.res = "InvalidManifest"

\* A manifest with a bytecode and no source that validated, was given
\* "bogus:cap" and has been validated again.
C35_Witness ==
  /\ validation.before = "Ok"
  /\ validation.res = "InvalidManifest"
  /\ validation.m.source = {}
  /\ validation.m.capabilities[Len(validation.m.capabilities)] = "bogus:cap"

\* C39: the LifecycleState predicates agree with the state checks of the
\* Plugin operations: whenever a caller stands at the state check of start,
\* stop, call or reload, the check passes exactly when can_start, can_stop,
\* can_call or can_reload holds of the plugin's state (so reload is rejected
\* in Created and Unloaded).
C39_PredicatesAgreeWithGuards ==
  \A t \in SeqThreads :
    /\ At(t, "start", "check") => (StartAllowed(state) <=> can_start(state))
    /\ At(t, "stop", "check") => (StopAllowed(state) <=> can_stop(state))
    /\ At(t, "call", "check") => (CallAllowed(state) <=> can_call(state))
    /\ At(t, "reload", "check") => (ReloadAllowed(state) <=> can_reload(state))

\* C36: with allow_overwrite = false a name is admitted once: no step of a
\* register puts a plugin under a name that another plugin holds, so of two
\* concurrent registers of different plugins with one name at most one
\* returns Ok and the plugin of the one that did is not replaced in the map.
C36_UniqueAdmission ==
  [][~config.allow_overwrite =>
       \A n \in Names :
         (plugins[n] # 0 /\ plugins'[n] # 0) => plugins'[n] = plugins[n]]_vars

\* C37: when unregister, an overwriting register, unload_all or cleanup
\* returns, every plugin whose entry it removed from the map is Unloaded.
C37_RemovedAreUnloaded ==
  \A t \in Threads :
    /\ (RegDone(t, "unregister") /\ rt[t].res = "Ok") => pstate[rt[t].old] = "Unloaded"
    /\ (RegDone(t, "register") /\ rt[t].old # 0) => pstate[rt[t].old] = "Unloaded"
    /\ (RegDone(t, "cleanup") \/ RegDone(t, "unload_all"))
         => \A p \in rt[t].dropped : pstate[p] = "Unloaded"

\* C38: when unload_all returns, with register running concurrently or not,
\* every plugin its clear() removed from the map is Unloaded.
C38_UnloadAllDropsOnlyUnloaded ==
  \A t \in Threads :
    RegDone(t, "unload_all") => \A p \in rt[t].dropped : pstate[p] = "Unloaded"

\* C40: a load_source that returns an error leaves nothing running: the
\* plugin it created is not Running when the error is returned, whether the
\* loader failed or the registration did.
C40_FailedLoadLeavesNothingRunning ==
  \A t \in Threads :
    (RegDone(t, "load_source") /\ rt[t].res # "Ok") => pstate[rt[t].id] # "Running"

====
